---- MODULE Spec2Model ----
(***************************************************************************)
(* Model of the recipe worker (src/src/worker.ts): the SessionDO history   *)
(* store, the /api/recipe handler with its auto-continue loop and model    *)
(* fallback, the /api/recipe/stream handler with its tee'd stream, and     *)
(* /api/reset; and of the frontend component App                           *)
(* (src/frontend/src/app/app.config.ts) that calls /api/recipe.            *)
(*                                                                         *)
(* Text is a sequence of one-character strings, so that includes,          *)
(* replaceAll, trim and endsWith are computed as JavaScript computes them. *)
(***************************************************************************)
EXTENDS Integers, Sequences, FiniteSets, TLC

VARIABLES store, req, app

vars == <<store, req, app>>

-----------------------------------------------------------------------------
(* Bounds of the model *)

NumReq == 2

(* Program constants *)

HistoryCap == 20
MaxRounds == 4

-----------------------------------------------------------------------------
(* Text *)

END == <<"<","<","<","E","N","D","_","O","F","_","R","E","C","I","P","E",">",">",">">>

NL == "\n"

Whitespace == {" ", NL, "\t"}

DEFAULT == "@cf/meta/llama-3.3-70b-instruct-fp8-fast"

FALLBACK == "@cf/meta/llama-3.1-8b-instruct-fast"

CUSTOM == "@cf/custom/model"

Max(a, b) == IF a > b THEN a ELSE b

\* s.startsWith(t, from i), 1-based
MatchAt(s, t, i) ==
  /\ i + Len(t) - 1 <= Len(s)
  /\ \A k \in 1..Len(t) : s[i + k - 1] = t[k]

\* String.prototype.includes
Includes(s, t) == \E i \in 1..(Len(s) + 1) : MatchAt(s, t, i)

\* String.prototype.endsWith
EndsWith(s, t) == Len(s) >= Len(t) /\ MatchAt(s, t, Len(s) - Len(t) + 1)

\* String.prototype.replaceAll(t, ""): one left-to-right pass over the
\* non-overlapping occurrences of t; the result is not scanned again.
RECURSIVE ReplaceFrom(_, _, _)
ReplaceFrom(s, t, i) ==
  IF i > Len(s) THEN <<>>
  ELSE IF MatchAt(s, t, i) THEN ReplaceFrom(s, t, i + Len(t))
  ELSE <<s[i]>> \o ReplaceFrom(s, t, i + 1)

ReplaceAll(s, t) == ReplaceFrom(s, t, 1)

\* String.prototype.trim
Trim(s) ==
  LET keep == {i \in 1..Len(s) : s[i] \notin Whitespace}
  IN IF keep = {} THEN <<>>
     ELSE LET lo == CHOOSE i \in keep : \A j \in keep : i <= j
              hi == CHOOSE i \in keep : \A j \in keep : j <= i
          IN SubSeq(s, lo, hi)

\* history.slice(-n)
SliceLast(h, n) == SubSeq(h, Max(1, Len(h) - n + 1), Len(h))

-----------------------------------------------------------------------------
(* SessionDO: the per-session history store *)

Sessions == {"s1", "s2"}

Entry(role, content) == [role |-> role, content |-> content]

\* GET /history
DoHistory(h) == h

\* slice(0, 20): a cap that evicts the newest entries
KeepOldest(h) == SubSeq(h, 1, IF Len(h) < HistoryCap THEN Len(h) ELSE HistoryCap)

\* slice(-21): a cap that is off by one
KeepLastOffByOne(h) == SliceLast(h, HistoryCap + 1)

\* the history kept by one /append: push, then slice(-20)
KeepLast(h) == SliceLast(h, HistoryCap)

\* a write-back that stores the new entry alone
WriteBackNewOnly(h, role, content) == <<Entry(role, content)>>

\* history.push(entry); trimmed = history.slice(-20); storage.put(trimmed):
\* the value one /append writes, from the history h it has read
WriteBack(h, role, content) == KeepLast(Append(h, Entry(role, content)))

\* POST /append on stored history h when nothing runs between its read and its
\* write: the answer and the history stored after it
DoAppend(h, role, content) ==
  IF role = "" \/ content = <<>>
  THEN [status |-> 400, history |-> h]
  ELSE [status |-> 200, history |-> WriteBack(h, role, content)]

\* a reset that keeps the newest entry
DoResetKeepsNewest(h) == SliceLast(h, 1)

\* POST /reset
DoReset(h) == <<>>

-----------------------------------------------------------------------------
(* Worker helpers *)

NoModel == "undefined"

\* the lower-case form of the identifiers a request may carry
ToLowerCase(m) ==
  CASE m = "GPT-5" -> "gpt-5"
    [] m = "GPT5" -> "gpt5"
    [] m = "GPT-4.1" -> "gpt-4.1"
    [] OTHER -> m

\* a resolution that knows no alias
resolveModelNoAlias(m) == IF m = NoModel \/ m = "" THEN DEFAULT ELSE m

resolveModel(m) ==
  IF m = NoModel \/ m = "" THEN DEFAULT
  ELSE IF ToLowerCase(m) \in {"gpt-5", "gpt5", "gpt-4.1"} THEN DEFAULT
  ELSE m

\* the least element of a non-empty set of numbers
Least(S) == CHOOSE i \in S : \A j \in S : i <= j

SidKey == <<"s", "i", "d", "=">>

\* the text /sid=([^;]+)/ captures at position i of a Cookie header: what
\* follows "sid=" up to the next ";" or the end
Captured(cookie, i) ==
  LET from == i + Len(SidKey)
      stops == {j \in from..Len(cookie) : cookie[j] = ";"}
  IN SubSeq(cookie, from, IF stops = {} THEN Len(cookie) ELSE Least(stops) - 1)

\* getOrCreateSessionId: the capture of the leftmost match of /sid=([^;]+)/ in
\* the Cookie header, wherever in the header it begins, else a new random id;
\* the session identifiers of the model are one token long
getOrCreateSessionId(cookie, fresh) ==
  LET starts == {i \in 1..Len(cookie) :
                   /\ MatchAt(cookie, SidKey, i)
                   /\ i + Len(SidKey) <= Len(cookie)
                   /\ cookie[i + Len(SidKey)] # ";"}
  IN IF starts = {} THEN fresh ELSE Captured(cookie, Least(starts))[1]

buildSystemPrompt == <<"s", "y", "s", ":">> \o END

\* the user prompt: the template's variable parts, in the template's order
userPromptFromInputs(ingredients, extras) ==
  <<"ingredients:">> \o ingredients \o
  (IF extras = "" THEN <<>> ELSE <<"constraints:", extras>>) \o <<"generate">>

\* messages built from every stored entry, whatever its role
BuildMessagesUnfiltered(history, userMsg) ==
  <<Entry("system", buildSystemPrompt)>> \o history \o <<userMsg>>

\* system message, stored user/assistant entries in order, the new user turn
BuildMessages(history, userMsg) ==
  <<Entry("system", buildSystemPrompt)>>
    \o SelectSeq(history, LAMBDA h : h.role \in {"user", "assistant"})
    \o <<userMsg>>

\* rounds <= 4: one round too many
LoopContinuesOffByOne(full, rounds) == ~Includes(full, END) /\ rounds <= MaxRounds

\* while (!full.includes(END) && rounds < 4)
LoopContinues(full, rounds) == ~Includes(full, END) /\ rounds < MaxRounds

\* full += (full.endsWith("\n") ? "" : "\n") + more
Accumulate(full, more) == full \o (IF EndsWith(full, <<NL>>) THEN <<>> ELSE <<NL>>) \o more

\* full.replaceAll(END, "").trim()
Clean(full) == Trim(ReplaceAll(full, END))

\* what runOnce makes of the value AI.run resolved to (or its rejection)
RunOnce(phase, res) ==
  CASE res.kind = "reject" -> [throws |-> TRUE, cause |-> res.cause, text |-> <<>>]
    [] res.kind = "null" -> [throws |-> TRUE, cause |-> "TypeError", text |-> <<>>]
    [] res.kind = "response" -> [throws |-> FALSE, cause |-> "none", text |-> res.text]
    [] res.kind = "string" -> [throws |-> FALSE, cause |-> "none", text |-> res.text]
    [] res.kind = "object" ->
         [throws |-> FALSE, cause |-> "none",
          text |-> IF phase = "primary" THEN <<"{", "}">>
                   ELSE <<"[","o","b","j","e","c","t"," ","O","b","j","e","c","t","]">>]

-----------------------------------------------------------------------------
(* The mock inference service and the requests the model draws from *)

\* the letter a model's prose is made of: tells the models' outputs apart
Letter(m) == IF m = FALLBACK THEN "f" ELSE "p"

Nested == SubSeq(END, 1, 7) \o END \o SubSeq(END, 8, Len(END))

\* the message of the error an inference call on model m rejects with
Failure(m) == IF m = FALLBACK THEN "fallback model failed" ELSE "primary model failed"

Response(t) == [kind |-> "response", text |-> t, cause |-> "none"]

Reject(c) == [kind |-> "reject", text |-> <<>>, cause |-> c]

\* every way one AI.run call on model m may end
Results(m) ==
  LET c == Letter(m) IN
  { Response(<<c>>), Response(<<c, NL>>), Response(<<>>),
    Response(<<c>> \o END), Response(<<" ">> \o END \o <<NL>>),
    Response(Nested),
    [kind |-> "string", text |-> <<c>> \o END, cause |-> "none"],
    [kind |-> "object", text |-> <<>>, cause |-> "none"],
    [kind |-> "null", text |-> <<>>, cause |-> "none"],
    Reject(Failure(m)) }

\* the outcomes used when several requests run at once
FewResults(m) ==
  { Response(<<Letter(m)>> \o END), Response(END), Reject(Failure(m)) }

RequestedModels == {NoModel, "gpt-5", "GPT-5", FALLBACK, CUSTOM}

IngredientLists == {<<>>, <<"egg">>}

ExtrasTexts == {"", "quick"}

OldEntry(i) ==
  Entry(IF i % 2 = 1 THEN "user" ELSE "assistant", <<"old", ToString(i)>>)

OldHistory(n) == [i \in 1..n |-> OldEntry(i)]

\* the stored histories at the start: a new session and one a single entry
\* below the cap
InitStore == [sid \in Sessions |-> IF sid = "s1" THEN OldHistory(0)
                                  ELSE OldHistory(HistoryCap - 1)]

-----------------------------------------------------------------------------
(* The frontend component App (src/frontend/src/app/app.config.ts) *)

\* the generate calls with an ingredient that the model follows
MaxGen == 2

Efforts == <<"quick", "medium", "gourmet">>

\* the title the switch of generateSingleRecipe gives an effort
Title(effort) ==
  CASE effort = "quick" -> "Quick & Easy"
    [] effort = "medium" -> "Balanced Effort"
    [] effort = "gourmet" -> "Gourmet Quality"

\* title.toLowerCase()
LowerTitle(effort) ==
  CASE effort = "quick" -> "quick & easy"
    [] effort = "medium" -> "balanced effort"
    [] effort = "gourmet" -> "gourmet quality"

\* the effortPrompt of an effort, by its leading words
EffortPrompt(effort) ==
  CASE effort = "quick" -> "Create a QUICK and EASY recipe"
    [] effort = "medium" -> "Create a BALANCED recipe"
    [] effort = "gourmet" -> "Create a GOURMET, HIGH-QUALITY recipe"

\* the places of the commas of a text
Commas(s) == {i \in 1..Len(s) : s[i] = ","}

\* text.split(','): the pieces between the commas, the empty ones included
RECURSIVE Split(_)
Split(s) ==
  IF Commas(s) = {} THEN <<s>>
  ELSE LET i == Least(Commas(s))
       IN <<SubSeq(s, 1, i - 1)>> \o Split(SubSeq(s, i + 1, Len(s)))

NonEmpty(t) == t # <<>>

\* String(ingredientsText).split(',').map(s => s.trim()).filter(Boolean)
ParseIngredients(text) ==
  LET pieces == Split(text)
  IN SelectSeq([i \in 1..Len(pieces) |-> Trim(pieces[i])], NonEmpty)

\* `${extras ? extras + ', ' : ''}${effortPrompt}`
FullExtras(extras, effort) ==
  IF extras # "" THEN <<extras, ", ", EffortPrompt(effort)>>
  ELSE <<EffortPrompt(effort)>>

\* the body of the POST /api/recipe of one effort
RecipeRequest(ingredients, extras, effort) ==
  [method |-> "POST", path |-> "/api/recipe",
   effort |-> effort, ingredients |-> ingredients,
   extras |-> FullExtras(extras, effort),
   model |-> "@cf/meta/llama-3.3-70b-instruct-fp8-fast"]

\* a fetch that resolved: status line, whether the body parses as JSON, and
\* the recipe, error and detail of the parsed body ("" where it has none)
Resolved200(recipe) ==
  [kind |-> "response", status |-> 200, statusText |-> "OK", json |-> TRUE,
   recipe |-> recipe, error |-> "", detail |-> "", message |-> ""]

ResolvedError(status, statusText, json, error, detail) ==
  [kind |-> "response", status |-> status, statusText |-> statusText,
   json |-> json, recipe |-> "", error |-> error, detail |-> detail,
   message |-> ""]

\* a fetch that rejected
Rejected(message) ==
  [kind |-> "reject", status |-> 0, statusText |-> "", json |-> FALSE,
   recipe |-> "", error |-> "", detail |-> "", message |-> message]

\* the ways the fetch of one effort may end: a recipe, the worker's 500 with
\* its JSON error, an error page that is not JSON, a network error
Outcomes ==
  { Resolved200("a recipe"),
    ResolvedError(500, "Internal Server Error", TRUE, "AI request failed", "boom"),
    ResolvedError(502, "Bad Gateway", FALSE, "", ""),
    Rejected("Failed to fetch") }

\* res.ok
Ok(out) == out.status >= 200 /\ out.status <= 299

\* await res.json().catch(() => ({ error: 'Invalid JSON response' }))
ParsedBody(out) ==
  IF out.json THEN [recipe |-> out.recipe, error |-> out.error, detail |-> out.detail]
  ELSE [recipe |-> "", error |-> "Invalid JSON response", detail |-> ""]

\* a Recipe of the component; its content is the pieces the text is put
\* together from
RecipeOf(content, effort) ==
  [content |-> content, effort |-> effort, title |-> Title(effort)]

\* the Recipe generateSingleRecipe resolves to for an outcome of its fetch
SingleRecipe(effort, out) ==
  IF out.kind = "reject"
  THEN RecipeOf(<<"Network error generating ", LowerTitle(effort), " recipe: ",
                  out.message>>, effort)
  ELSE LET data == ParsedBody(out) IN
       IF ~Ok(out)
       THEN RecipeOf(<<"Error generating ", LowerTitle(effort), " recipe: ">>
                       \o (IF data.error # "" THEN <<data.error>>
                           ELSE IF data.detail # "" THEN <<data.detail>>
                           ELSE <<ToString(out.status), " ", out.statusText>>),
                     effort)
       ELSE RecipeOf(IF data.recipe # "" THEN <<data.recipe>>
                     ELSE <<"No ", LowerTitle(effort), " recipe received.">>,
                     effort)

NotSettled == [content |-> <<>>, effort |-> "pending", title |-> "pending"]

\* a generate call that waits for its Promise.all: the requests it issued and
\* what each generateSingleRecipe has resolved to so far
NewRun(ingredients, extras) ==
  [requests |-> [i \in 1..3 |-> RecipeRequest(ingredients, extras, Efforts[i])],
   results |-> [i \in 1..3 |-> NotSettled]]

\* the fields of the component: fullText is the text given to startTyping,
\* shown the text whose markup typedHtml holds, typeTimer whether the typing
\* interval is set. runs are the generate calls in flight; fetches counts the
\* requests issued and gens the generate calls that passed the ingredient
\* check.
InitApp ==
  [loading |-> FALSE, recipes |-> <<>>, currentRecipeIndex |-> 0,
   hasTypedOnce |-> FALSE, fullText |-> <<>>, shown |-> <<>>,
   typeTimer |-> FALSE, runs |-> <<>>, fetches |-> 0, gens |-> 0]

\* get currentRecipe: recipes[currentRecipeIndex] || null
HasCurrentRecipe(a) == a.currentRecipeIndex + 1 \in 1..Len(a.recipes)

currentRecipe(a) == a.recipes[a.currentRecipeIndex + 1]

canNavigateLeft(a) == a.currentRecipeIndex > 0

\* a right arrow that is still enabled on the last recipe
canNavigateRightOffByOne(a) == a.currentRecipeIndex < Len(a.recipes)

canNavigateRight(a) == a.currentRecipeIndex < Len(a.recipes) - 1

\* startTyping(text): the timer is set and nothing is typed yet
startTyping(a, text) ==
  [a EXCEPT !.fullText = text, !.shown = <<>>, !.typeTimer = TRUE]

\* displayCurrentRecipeInstant(): the timer is cleared and the whole content
\* is shown, when there is a current recipe
displayCurrentRecipeInstant(a) ==
  IF HasCurrentRecipe(a)
  THEN [a EXCEPT !.typeTimer = FALSE, !.shown = currentRecipe(a).content]
  ELSE a

\* displayCurrentRecipe(): typed the first time, instant afterwards
displayCurrentRecipe(a) ==
  IF ~HasCurrentRecipe(a) THEN a
  ELSE IF ~a.hasTypedOnce
  THEN [startTyping(a, currentRecipe(a).content) EXCEPT !.hasTypedOnce = TRUE]
  ELSE displayCurrentRecipeInstant(a)

\* the steps of the typing interval, taken together: the whole text is typed
\* and the timer is cleared
TypeStep ==
  /\ app.typeTimer
  /\ app' = [app EXCEPT !.shown = app.fullText, !.typeTimer = FALSE]
  /\ UNCHANGED <<store, req>>

\* navigateLeft(): the component after the call
navigateLeft(a) ==
  IF canNavigateLeft(a)
  THEN displayCurrentRecipeInstant([a EXCEPT !.currentRecipeIndex = @ - 1])
  ELSE a

\* navigateRight(): the component after the call
navigateRight(a) ==
  IF canNavigateRight(a)
  THEN displayCurrentRecipeInstant([a EXCEPT !.currentRecipeIndex = @ + 1])
  ELSE a

\* the user presses the left arrow
NavigateLeft ==
  /\ app' = navigateLeft(app)
  /\ UNCHANGED <<store, req>>

\* the user presses the right arrow
NavigateRight ==
  /\ app' = navigateRight(app)
  /\ UNCHANGED <<store, req>>

\* a generate that sends the request of the first effort only
generateOnlyQuick(a, text, extras) ==
  LET ing == ParseIngredients(text) IN
  IF ing = <<>>
  THEN startTyping(a, <<"Please enter at least one ingredient.">>)
  ELSE [a EXCEPT !.loading = TRUE, !.recipes = <<>>,
                 !.currentRecipeIndex = 0, !.hasTypedOnce = FALSE,
                 !.runs = Append(@, [NewRun(ing, extras) EXCEPT
                            !.requests = SubSeq(@, 1, 1),
                            !.results[2] = SingleRecipe("medium", Rejected("not sent")),
                            !.results[3] = SingleRecipe("gourmet", Rejected("not sent"))]),
                 !.fetches = @ + 1, !.gens = @ + 1]

\* generate() up to its await, the component after it: without an ingredient
\* it types a notice and returns; else it sets loading, clears the recipes and
\* the index, and the three generateSingleRecipe calls each run up to their
\* fetch
generate(a, text, extras) ==
  LET ing == ParseIngredients(text) IN
  IF ing = <<>>
  THEN startTyping(a, <<"Please enter at least one ingredient.">>)
  ELSE [a EXCEPT !.loading = TRUE, !.recipes = <<>>,
                 !.currentRecipeIndex = 0, !.hasTypedOnce = FALSE,
                 !.runs = Append(@, NewRun(ing, extras)),
                 !.fetches = @ + 3, !.gens = @ + 1]

\* the user presses generate with the fields holding text and extras
Generate(text, extras) ==
  /\ app.gens < MaxGen \/ ParseIngredients(text) = <<>>
  /\ app' = generate(app, text, extras)
  /\ UNCHANGED <<store, req>>

\* the fetch of effort i of run k ends and its generateSingleRecipe resolves
Settle(k, i, out) ==
  /\ k \in 1..Len(app.runs)
  /\ app.runs[k].results[i] = NotSettled
  /\ app' = [app EXCEPT !.runs[k].results[i] = SingleRecipe(Efforts[i], out)]
  /\ UNCHANGED <<store, req>>

\* the sequence s without its k-th element
Without(s, k) == SubSeq(s, 1, k - 1) \o SubSeq(s, k + 1, Len(s))

\* Promise.all has resolved for run k: recipes = results, the current recipe
\* is displayed, and finally loading = false
Finish(k) ==
  /\ k \in 1..Len(app.runs)
  /\ \A i \in 1..3 : app.runs[k].results[i] # NotSettled
  /\ app' = [displayCurrentRecipe([app EXCEPT !.recipes = app.runs[k].results])
               EXCEPT !.loading = FALSE, !.runs = Without(app.runs, k)]
  /\ UNCHANGED <<store, req>>

\* the texts of the ingredients field and of the extras field of a generate
FormInputs ==
  { <<<<>>, "">>, <<<<" ", ",", " ">>, "vegan">>,
    <<<<"e", "g", "g", ",", " ", ",", "f">>, "vegan">> }

-----------------------------------------------------------------------------
(* Requests *)

ReqIds == 1..NumReq

NoResp ==
  [status |-> 0, shape |-> "none", model |-> "none", recipe |-> <<>>,
   note |-> "none", error |-> "none", detail |-> "none"]

Json200(model, recipe, note) ==
  [status |-> 200, shape |-> "json", model |-> model, recipe |-> recipe,
   note |-> note, error |-> "none", detail |-> "none"]

JsonError(status, error, detail) ==
  [status |-> status, shape |-> "json", model |-> "none", recipe |-> <<>>,
   note |-> "none", error |-> error, detail |-> detail]

\* a request to the session object: method, path and the body's role and content
DoReq(method, path, role, content) ==
  [method |-> method, path |-> path, role |-> role, content |-> content]

NoDoReq == DoReq("none", "none", "", <<>>)

\* pc: the await the request is suspended at. calls, attemptCalls, fbAttempts,
\* writes, appends, causes, msgs and partial only record what the request has
\* done: the inference calls made (in all, in this attempt), the fallback
\* attempts started, the store writes, the appends answered, the exceptions
\* caught, the messages of the latest inference call of the attempt, and whether
\* the primary attempt held text when it failed. delivered and drained are the
\* bytes read so far from s1 by the caller and from s2 by the drain. asked is
\* the identifier given to resolveModel where that call is taken alone. doReq
\* is the request a slot sends to the session object itself, and raced records
\* that the stored history changed between the read and the write of its append.
\* flying holds the calls the request has issued and not yet had an answer to,
\* where a call and its answer are taken as two steps. swallowed counts the
\* exceptions the drain's empty catch has dropped. logs holds what the request
\* has written to a log: the worker calls no logging function, on any path, so
\* no action adds to it. arrived and cookie hold the Cookie header of a request
\* where the header is modelled.
IdleReq ==
  [pc |-> "idle", route |-> "none", sid |-> "none", ingredients |-> <<>>,
   model |-> "none", history |-> <<>>, userMsg |-> Entry("user", <<>>),
   phase |-> "none", first |-> TRUE, full |-> <<>>, rounds |-> 0, clean |-> <<>>,
   err |-> "none", resp |-> NoResp,
   calls |-> 0, attemptCalls |-> 0, fbAttempts |-> 0, writes |-> 0,
   appends |-> <<>>, causes |-> <<>>, msgs |-> <<>>, partial |-> FALSE,
   stream |-> "none", chunks |-> <<>>, client |-> "none", aPos |-> 0,
   delivered |-> <<>>, drain |-> "none", bPos |-> 0, drained |-> <<>>,
   acc |-> <<>>, asked |-> "none", doReq |-> NoDoReq, raced |-> FALSE,
   flying |-> <<>>, swallowed |-> 0, logs |-> <<>>,
   arrived |-> FALSE, cookie |-> <<>>]

Init ==
  /\ store = InitStore
  /\ app = InitApp
  /\ req = [r \in ReqIds |-> IdleReq]

\* a catch that reports the cause of the latest failure
CatchReportsLastCause(q, cause) ==
  LET q1 == [q EXCEPT !.causes = Append(@, cause)] IN
  IF q.phase = "primary" /\ q.model # FALLBACK
  THEN [q1 EXCEPT !.err = cause, !.phase = "fallback", !.first = TRUE,
                  !.full = <<>>, !.rounds = 0, !.clean = <<>>, !.pc = "infer",
                  !.attemptCalls = 0, !.fbAttempts = @ + 1,
                  !.msgs = <<>>, !.partial = (q.full # <<>>)]
  ELSE [q1 EXCEPT !.err = cause, !.pc = "done",
                  !.resp = JsonError(500, IF q.phase = "streamFallback"
                                          THEN "AI streaming failed"
                                          ELSE "AI request failed", cause)]

\* a fallback that goes on from the text of the primary attempt
CatchKeepsPartial(q, cause) ==
  LET q1 == [q EXCEPT !.causes = Append(@, cause)] IN
  IF q.phase = "primary" /\ q.model # FALLBACK
  THEN [q1 EXCEPT !.err = cause, !.phase = "fallback", !.pc = "infer",
                  !.attemptCalls = 0, !.fbAttempts = @ + 1,
                  !.msgs = <<>>, !.partial = (q.full # <<>>)]
  ELSE [q1 EXCEPT !.err = IF q.phase = "primary" THEN cause ELSE q.err,
                  !.pc = "done",
                  !.resp = JsonError(500, IF q.phase = "streamFallback"
                                          THEN "AI streaming failed"
                                          ELSE "AI request failed",
                                     IF q.phase = "primary" THEN cause ELSE q.err)]

\* the catch blocks of /api/recipe: an exception in the primary attempt starts
\* the fallback attempt when the model is not the fallback model; any other
\* exception ends the request with status 500 and the primary's cause
Catch(q, cause) ==
  LET q1 == [q EXCEPT !.causes = Append(@, cause)] IN
  IF q.phase = "primary"
  THEN IF q.model # FALLBACK
       THEN [q1 EXCEPT !.err = cause, !.phase = "fallback", !.first = TRUE,
                       !.full = <<>>, !.rounds = 0, !.clean = <<>>, !.pc = "infer",
                       !.attemptCalls = 0, !.fbAttempts = @ + 1,
                       !.msgs = <<>>, !.partial = (q.full # <<>>)]
       ELSE [q1 EXCEPT !.err = cause, !.pc = "done",
                       !.resp = JsonError(500, "AI request failed", cause)]
  ELSE IF q.phase = "fallback"
  THEN [q1 EXCEPT !.pc = "done",
                  !.resp = JsonError(500, "AI request failed", q.err)]
  ELSE [q1 EXCEPT !.pc = "done",
                  !.resp = JsonError(500, "AI streaming failed", q.err)]

\* the ingredients check left out
HasIngredientsAlways(ingredients) == TRUE

\* if (!ingredients.length) return 400
HasIngredients(ingredients) == Len(ingredients) > 0

\* the request arrives: cookie, body, resolveModel, the ingredients check
Receive(r, route, sid, ingredients, extras, model) ==
  /\ req[r].pc = "idle"
  /\ route \in {"recipe", "stream"}
  /\ LET q == [req[r] EXCEPT !.route = route, !.sid = sid,
                             !.ingredients = ingredients,
                             !.model = resolveModel(model),
                             !.userMsg = Entry("user", userPromptFromInputs(ingredients, extras))]
     IN req' = [req EXCEPT ![r] =
          IF ~HasIngredients(ingredients)
          THEN [q EXCEPT !.pc = "done",
                         !.resp = JsonError(400, "Provide at least one ingredient.", "none")]
          ELSE [q EXCEPT !.pc = "load"]]
  /\ UNCHANGED <<store, app>>

\* stub.fetch("https://do/history"), outside every try: when it rejects the
\* exception leaves the handler and no Response is built
LoadHistory(r, fails) ==
  /\ req[r].pc = "load"
  /\ req' = IF fails
            THEN [req EXCEPT ![r].pc = "crashed"]
            ELSE [req EXCEPT ![r].history = DoHistory(store[req[r].sid]),
                             ![r].phase = "primary",
                             ![r].pc = IF req[r].route = "recipe" THEN "infer"
                                       ELSE "openStream"]
  /\ UNCHANGED <<store, app>>

\* the continuation request of the primary and of the fallback loop
ContinuePrompt(phase) ==
  IF phase = "primary"
  THEN <<"continue, do not repeat, finish, append:">> \o END
  ELSE <<"continue and finish with:">> \o END \o <<"do not repeat">>

\* continuation messages that leave the stored history out
ContinueMessagesWithoutHistory(q) ==
  BuildMessages(<<>>, q.userMsg)
    \o <<Entry("assistant", q.full), Entry("user", ContinuePrompt(q.phase))>>

\* contMsgs: system, history, userMsg, the text so far as assistant, continue
ContinueMessages(q) ==
  BuildMessages(q.history, q.userMsg)
    \o <<Entry("assistant", q.full), Entry("user", ContinuePrompt(q.phase))>>

\* the messages of the next inference call of request q
CallMessages(q) ==
  IF q.route = "recipe" /\ ~q.first THEN ContinueMessages(q)
  ELSE BuildMessages(q.history, q.userMsg)

\* a loop that throws when the rounds are used up and the sentinel is missing
InferThrowsWhenExhausted(r, res) ==
  /\ req[r].pc = "infer"
  /\ req[r].route = "recipe"
  /\ LET q == [req[r] EXCEPT !.calls = @ + 1, !.attemptCalls = @ + 1,
                             !.msgs = CallMessages(req[r]), !.flying = <<>>]
         out == RunOnce(q.phase, res)
         full == IF q.first THEN out.text ELSE Accumulate(q.full, out.text)
         rounds == IF q.first THEN 0 ELSE q.rounds + 1
     IN req' = [req EXCEPT ![r] =
          IF out.throws THEN Catch(q, out.cause)
          ELSE IF LoopContinues(full, rounds)
          THEN [q EXCEPT !.first = FALSE, !.full = full, !.rounds = rounds]
          ELSE IF ~Includes(full, END)
          THEN Catch([q EXCEPT !.full = full, !.rounds = rounds], "incomplete")
          ELSE [q EXCEPT !.first = FALSE, !.full = full, !.rounds = rounds,
                         !.clean = Clean(full), !.pc = "appendUser"]]
  /\ UNCHANGED <<store, app>>

\* a loop that, when a continuation call fails, saves the text it holds so far
InferSavesAfterFailure(r, res) ==
  /\ req[r].pc = "infer"
  /\ req[r].route = "recipe"
  /\ LET q == [req[r] EXCEPT !.calls = @ + 1, !.attemptCalls = @ + 1,
                             !.msgs = CallMessages(req[r]), !.flying = <<>>]
         out == RunOnce(q.phase, res)
         full == IF q.first THEN out.text ELSE Accumulate(q.full, out.text)
         rounds == IF q.first THEN 0 ELSE q.rounds + 1
     IN req' = [req EXCEPT ![r] =
          IF out.throws /\ q.first THEN Catch(q, out.cause)
          ELSE IF out.throws
          THEN [q EXCEPT !.causes = Append(@, out.cause),
                         !.clean = Clean(q.full), !.pc = "appendUser"]
          ELSE IF LoopContinues(full, rounds)
          THEN [q EXCEPT !.first = FALSE, !.full = full, !.rounds = rounds]
          ELSE [q EXCEPT !.first = FALSE, !.full = full, !.rounds = rounds,
                         !.clean = Clean(full), !.pc = "appendUser"]]
  /\ UNCHANGED <<store, app>>

\* one runOnce of /api/recipe, with the loop test that follows it
Infer(r, res) ==
  /\ req[r].pc = "infer"
  /\ req[r].route = "recipe"
  /\ LET q == [req[r] EXCEPT !.calls = @ + 1, !.attemptCalls = @ + 1,
                             !.msgs = CallMessages(req[r]), !.flying = <<>>]
         out == RunOnce(q.phase, res)
         full == IF q.first THEN out.text ELSE Accumulate(q.full, out.text)
         rounds == IF q.first THEN 0 ELSE q.rounds + 1
     IN req' = [req EXCEPT ![r] =
          IF out.throws THEN Catch(q, out.cause)
          ELSE IF LoopContinues(full, rounds)
          THEN [q EXCEPT !.first = FALSE, !.full = full, !.rounds = rounds]
          ELSE [q EXCEPT !.first = FALSE, !.full = full, !.rounds = rounds,
                         !.clean = Clean(full), !.pc = "appendUser"]]
  /\ UNCHANGED <<store, app>>

\* await stub.fetch("https://do/append", userMsg)
AppendUser(r, fails) ==
  /\ req[r].pc = "appendUser"
  /\ IF fails
     THEN /\ req' = [req EXCEPT ![r] = Catch([req[r] EXCEPT !.flying = <<>>], "store error")]
          /\ UNCHANGED <<store, app>>
     ELSE LET a == DoAppend(store[req[r].sid], req[r].userMsg.role, req[r].userMsg.content)
          IN /\ store' = [store EXCEPT ![req[r].sid] = a.history]
             /\ UNCHANGED app
             /\ req' = [req EXCEPT ![r].pc = "appendAsst", ![r].flying = <<>>,
                                   ![r].appends = Append(@, "user"),
                                   ![r].writes = @ + (IF a.status = 200 THEN 1 ELSE 0)]

\* a fallback response that reports the requested model and no note
SuccessResponseKeepsModel(q) ==
  IF q.phase = "streamFallback" THEN Json200(q.model, q.clean, "Stream fallback used.")
  ELSE Json200(q.model, q.clean, "none")

\* the success body of an attempt: { model, recipe } and, after a fallback, note
SuccessResponse(q) ==
  CASE q.phase = "primary" -> Json200(q.model, q.clean, "none")
    [] q.phase = "fallback" -> Json200(FALLBACK, q.clean, "Auto-fallback used.")
    [] OTHER -> Json200(q.model, q.clean, "Stream fallback used.")

\* await stub.fetch("https://do/append", {assistant, clean}), then the response
AppendAsst(r, fails) ==
  /\ req[r].pc = "appendAsst"
  /\ IF fails
     THEN /\ req' = [req EXCEPT ![r] = Catch([req[r] EXCEPT !.flying = <<>>], "store error")]
          /\ UNCHANGED <<store, app>>
     ELSE LET q == [req[r] EXCEPT !.flying = <<>>]
              a == DoAppend(store[q.sid], "assistant", q.clean)
          IN /\ store' = [store EXCEPT ![q.sid] = a.history]
             /\ UNCHANGED app
             /\ req' = [req EXCEPT ![r] =
                  [q EXCEPT !.pc = "done",
                            !.appends = Append(@, "assistant"),
                            !.writes = @ + (IF a.status = 200 THEN 1 ELSE 0),
                            !.resp = SuccessResponse(q)]]

\* POST /api/reset; its stub.fetch is outside every try
Reset(r, sid, fails) ==
  /\ req[r].pc = "idle"
  /\ IF fails
     THEN /\ req' = [req EXCEPT ![r].route = "reset", ![r].sid = sid,
                                ![r].pc = "crashed"]
          /\ UNCHANGED <<store, app>>
     ELSE /\ store' = [store EXCEPT ![sid] = DoReset(@)]
          /\ UNCHANGED app
          /\ req' = [req EXCEPT ![r].route = "reset", ![r].sid = sid, ![r].pc = "done",
                                ![r].writes = @ + 1,
                                ![r].resp = [NoResp EXCEPT !.status = 200, !.shape = "json"]]

-----------------------------------------------------------------------------
(* SessionDO.fetch, step by step *)

\* the requests the session object is sent
DoRequests ==
  {DoReq("GET", "/history", "", <<>>), DoReq("POST", "/reset", "", <<>>),
   DoReq("GET", "/other", "", <<>>), DoReq("GET", "/append", "user", <<"x">>),
   DoReq("GET", "/reset", "", <<>>)}
  \cup {DoReq("POST", "/append", role, content) :
          role \in {"", "user", "assistant", "tool"}, content \in {<<>>, <<"x">>}}

\* a session object that stores the entry of an /append before it validates it
DoFetchStoresUnchecked(r, sid, d) ==
  /\ req[r].pc = "idle"
  /\ LET q == [req[r] EXCEPT !.route = "do", !.sid = sid, !.doReq = d]
         ok == [NoResp EXCEPT !.status = 200, !.shape = "json"]
     IN
     CASE d.method = "GET" /\ d.path = "/history" ->
            /\ req' = [req EXCEPT ![r] = [q EXCEPT !.history = DoHistory(store[sid]),
                                                   !.pc = "done", !.resp = ok]]
            /\ UNCHANGED <<store, app>>
       [] d.method = "POST" /\ d.path = "/append" ->
            IF d.role = "" \/ d.content = <<>>
            THEN /\ store' = [store EXCEPT ![sid] = WriteBack(@, d.role, d.content)]
                 /\ UNCHANGED app
                 /\ req' = [req EXCEPT ![r] =
                      [q EXCEPT !.pc = "done",
                                !.resp = [NoResp EXCEPT !.status = 400, !.shape = "text"]]]
            ELSE /\ req' = [req EXCEPT ![r] =
                      [q EXCEPT !.history = store[sid], !.pc = "doPut"]]
                 /\ UNCHANGED <<store, app>>
       [] d.method = "POST" /\ d.path = "/reset" ->
            /\ store' = [store EXCEPT ![sid] = DoReset(@)]
            /\ UNCHANGED app
            /\ req' = [req EXCEPT ![r] = [q EXCEPT !.pc = "done", !.writes = @ + 1,
                                                   !.resp = ok]]
       [] OTHER ->
            /\ req' = [req EXCEPT ![r] =
                 [q EXCEPT !.pc = "done",
                           !.resp = [NoResp EXCEPT !.status = 404, !.shape = "text"]]]
            /\ UNCHANGED <<store, app>>

\* SessionDO.fetch up to its first storage call and, but for a valid /append,
\* to its end; a valid /append has read the history and is about to write
DoFetch(r, sid, d) ==
  /\ req[r].pc = "idle"
  /\ LET q == [req[r] EXCEPT !.route = "do", !.sid = sid, !.doReq = d]
         ok == [NoResp EXCEPT !.status = 200, !.shape = "json"]
     IN
     CASE d.method = "GET" /\ d.path = "/history" ->
            /\ req' = [req EXCEPT ![r] = [q EXCEPT !.history = DoHistory(store[sid]),
                                                   !.pc = "done", !.resp = ok]]
            /\ UNCHANGED <<store, app>>
       [] d.method = "POST" /\ d.path = "/append" ->
            /\ req' = [req EXCEPT ![r] =
                 IF d.role = "" \/ d.content = <<>>
                 THEN [q EXCEPT !.pc = "done",
                                !.resp = [NoResp EXCEPT !.status = 400, !.shape = "text"]]
                 ELSE [q EXCEPT !.history = store[sid], !.pc = "doPut"]]
            /\ UNCHANGED <<store, app>>
       [] d.method = "POST" /\ d.path = "/reset" ->
            /\ store' = [store EXCEPT ![sid] = DoReset(@)]
            /\ UNCHANGED app
            /\ req' = [req EXCEPT ![r] = [q EXCEPT !.pc = "done", !.writes = @ + 1,
                                                   !.resp = ok]]
       [] OTHER ->
            /\ req' = [req EXCEPT ![r] =
                 [q EXCEPT !.pc = "done",
                           !.resp = [NoResp EXCEPT !.status = 404, !.shape = "text"]]]
            /\ UNCHANGED <<store, app>>

\* storage.put("history", trimmed) of an /append and its answer { ok, size }
DoPut(r) ==
  /\ req[r].pc = "doPut"
  /\ LET q == req[r] IN
     /\ store' = [store EXCEPT ![q.sid] = WriteBack(q.history, q.doReq.role, q.doReq.content)]
     /\ UNCHANGED app
     /\ req' = [req EXCEPT ![r].pc = "done", ![r].writes = @ + 1,
                           ![r].raced = (store[q.sid] # q.history),
                           ![r].resp = [NoResp EXCEPT !.status = 200, !.shape = "json"]]

-----------------------------------------------------------------------------
(* /api/recipe/stream *)

MaxChunks == 2

\* the chunks a live stream of model m may carry
Chunks(m) == { <<Letter(m)>>, END, SubSeq(END, 1, 7), SubSeq(END, 8, Len(END)) }

\* TextDecoder.decode of a chunk of ASCII bytes: one character per byte
Decode(chunk) == [i \in 1..Len(chunk) |-> chunk[i]]

StreamResults(m) == {[kind |-> "stream", text |-> <<>>, cause |-> "none"],
                     [kind |-> "null", text |-> <<>>, cause |-> "none"],
                     Reject("stream failed")}

\* a handler that returns the stream and enters the fallback all the same
OpenStreamThenFallsBack(r, res) ==
  /\ req[r].pc = "openStream"
  /\ LET q == [req[r] EXCEPT !.calls = @ + 1, !.attemptCalls = @ + 1,
                             !.msgs = CallMessages(req[r]), !.flying = <<>>]
         out == RunOnce("stream", res)
     IN req' = [req EXCEPT ![r] =
          IF res.kind = "stream"
          THEN [q EXCEPT !.pc = "sfInfer", !.phase = "streamFallback",
                         !.stream = "open", !.client = "reading", !.drain = "reading",
                         !.resp = [NoResp EXCEPT !.status = 200, !.shape = "stream"]]
          ELSE [q EXCEPT !.pc = "sfInfer", !.phase = "streamFallback",
                         !.err = out.cause, !.causes = Append(@, out.cause),
                         !.attemptCalls = 0, !.msgs = <<>>]]
  /\ UNCHANGED <<store, app>>

\* env.AI.run(model, {stream: true}), tee, waitUntil(drain), return Response(s1);
\* an exception here enters the non-streaming fallback
OpenStream(r, res) ==
  /\ req[r].pc = "openStream"
  /\ LET q == [req[r] EXCEPT !.calls = @ + 1, !.attemptCalls = @ + 1,
                             !.msgs = CallMessages(req[r]), !.flying = <<>>]
         out == RunOnce("stream", res)
     IN req' = [req EXCEPT ![r] =
          IF res.kind = "stream"
          THEN [q EXCEPT !.pc = "done", !.stream = "open", !.client = "reading",
                         !.drain = "reading",
                         !.resp = [NoResp EXCEPT !.status = 200, !.shape = "stream"]]
          ELSE [q EXCEPT !.pc = "sfInfer", !.phase = "streamFallback",
                         !.err = out.cause, !.causes = Append(@, out.cause),
                         !.attemptCalls = 0, !.msgs = <<>>]]
  /\ UNCHANGED <<store, app>>

\* the non-streaming call of the stream fallback: String(result), not cleaned
StreamFallbackInfer(r, res) ==
  /\ req[r].pc = "sfInfer"
  /\ LET q == [req[r] EXCEPT !.calls = @ + 1, !.attemptCalls = @ + 1,
                             !.msgs = CallMessages(req[r]), !.flying = <<>>]
         out == RunOnce("streamFallback", res)
     IN req' = [req EXCEPT ![r] =
          IF out.throws THEN Catch(q, out.cause)
          ELSE [q EXCEPT !.full = out.text, !.clean = out.text, !.pc = "appendUser"]]
  /\ UNCHANGED <<store, app>>

\* the model emits a chunk: the tee enqueues it on both branches
Produce(r, chunk) ==
  /\ req[r].stream = "open"
  /\ Len(req[r].chunks) < MaxChunks
  /\ req' = [req EXCEPT ![r].chunks = Append(@, chunk)]
  /\ UNCHANGED <<store, app>>

\* the model ends the stream
CloseStream(r) ==
  /\ req[r].stream = "open"
  /\ req' = [req EXCEPT ![r].stream = "closed"]
  /\ UNCHANGED <<store, app>>

\* the stream fails after it was obtained
ErrorStream(r) ==
  /\ req[r].stream = "open"
  /\ req' = [req EXCEPT ![r].stream = "errored"]
  /\ UNCHANGED <<store, app>>

\* a tee whose second branch misses the first chunk
TeeLosesChunk(chunks) == <<chunks, IF chunks = <<>> THEN <<>> ELSE Tail(chunks)>>

\* const [s1, s2] = aiStream.tee(): every chunk is enqueued on both branches
Tee(chunks) == <<chunks, chunks>>

\* the caller reads the next chunk of s1, or sees its end; once the stream has
\* errored a read may still get a queued chunk or reject at once
ClientRead(r) ==
  /\ req[r].client = "reading"
  /\ LET q == req[r]
         s1 == Tee(q.chunks)[1]
     IN
     \/ /\ q.aPos < Len(s1)
        /\ req' = [req EXCEPT ![r].aPos = @ + 1,
                              ![r].delivered = @ \o s1[q.aPos + 1]]
     \/ /\ q.aPos = Len(s1)
        /\ q.stream = "closed"
        /\ req' = [req EXCEPT ![r].client = "ended"]
     \/ /\ q.stream = "errored"
        /\ req' = [req EXCEPT ![r].client = "failed"]
  /\ UNCHANGED <<store, app>>

\* the caller disconnects: s1 is cancelled
ClientCancel(r) ==
  /\ req[r].client = "reading"
  /\ req' = [req EXCEPT ![r].client = "cancelled"]
  /\ UNCHANGED <<store, app>>

\* a drain that reads s2 only while the caller still reads s1
DrainNeedsCaller(q) == q.bPos < Len(Tee(q.chunks)[2]) /\ q.client = "reading"

\* reader.read() on s2 resolves with a chunk: one is queued on the branch,
\* whatever the caller does with s1
DrainHasChunk(q) == q.bPos < Len(Tee(q.chunks)[2])

\* a drain that takes a rejected read for the end of the stream and saves the
\* text it has accumulated
DrainReadSavesOnError(r) ==
  /\ req[r].drain = "reading"
  /\ LET q == req[r]
         s2 == Tee(q.chunks)[2]
     IN
     \/ /\ DrainHasChunk(q)
        /\ req' = [req EXCEPT ![r].bPos = @ + 1,
                              ![r].drained = @ \o s2[q.bPos + 1],
                              ![r].acc = @ \o Decode(s2[q.bPos + 1])]
     \/ /\ q.bPos = Len(s2)
        /\ q.stream = "closed"
        /\ req' = [req EXCEPT ![r].drain = "appendUser"]
     \/ /\ q.stream = "errored"
        /\ req' = [req EXCEPT ![r].drain = "appendUser"]
  /\ UNCHANGED <<store, app>>

\* one reader.read() of the drain of s2: a chunk is decoded and accumulated; at
\* the end of the stream the drain goes on to save; an errored stream rejects
\* the read, which ends the drain
DrainRead(r) ==
  /\ req[r].drain = "reading"
  /\ LET q == req[r]
         s2 == Tee(q.chunks)[2]
     IN
     \/ /\ DrainHasChunk(q)
        /\ req' = [req EXCEPT ![r].bPos = @ + 1,
                              ![r].drained = @ \o s2[q.bPos + 1],
                              ![r].acc = @ \o Decode(s2[q.bPos + 1])]
     \/ /\ q.bPos = Len(s2)
        /\ q.stream = "closed"
        /\ req' = [req EXCEPT ![r].drain = "appendUser"]
     \/ /\ q.stream = "errored"
        /\ req' = [req EXCEPT ![r].drain = "failed"]
  /\ UNCHANGED <<store, app>>

\* the drain's append of the user turn; its catch swallows a failure
DrainAppendUser(r, fails) ==
  /\ req[r].drain = "appendUser"
  /\ IF fails
     THEN /\ req' = [req EXCEPT ![r].drain = "done", ![r].flying = <<>>,
                                ![r].swallowed = @ + 1]
          /\ UNCHANGED <<store, app>>
     ELSE LET a == DoAppend(store[req[r].sid], req[r].userMsg.role, req[r].userMsg.content)
          IN /\ store' = [store EXCEPT ![req[r].sid] = a.history]
             /\ UNCHANGED app
             /\ req' = [req EXCEPT ![r].drain = "appendAsst", ![r].flying = <<>>,
                                   ![r].appends = Append(@, "user"),
                                   ![r].writes = @ + (IF a.status = 200 THEN 1 ELSE 0)]

\* the drain's append of the assistant turn, the accumulated text
DrainAppendAsst(r, fails) ==
  /\ req[r].drain = "appendAsst"
  /\ IF fails
     THEN /\ req' = [req EXCEPT ![r].drain = "done", ![r].flying = <<>>,
                                ![r].swallowed = @ + 1]
          /\ UNCHANGED <<store, app>>
     ELSE LET a == DoAppend(store[req[r].sid], "assistant", req[r].acc)
          IN /\ store' = [store EXCEPT ![req[r].sid] = a.history]
             /\ UNCHANGED app
             /\ req' = [req EXCEPT ![r].drain = "done", ![r].flying = <<>>,
                                   ![r].appends = Append(@, "assistant"),
                                   ![r].writes = @ + (IF a.status = 200 THEN 1 ELSE 0)]

-----------------------------------------------------------------------------
(* The awaited calls of a request, issue and answer apart *)

\* the awaited calls of the handler and of the drain, by the place they are made
HandlerCalls == {"infer", "openStream", "sfInfer", "appendUser", "appendAsst"}

DrainCalls == {"drainUser", "drainAsst"}

\* the request is at the place of the call
AtCall(q, op) ==
  CASE op \in HandlerCalls -> q.pc = op
    [] op = "drainUser" -> q.drain = "appendUser"
    [] op = "drainAsst" -> q.drain = "appendAsst"

\* a request that makes its next call while an earlier one is unanswered
MayIssueUnawaited(q, op) == AtCall(q, op)

\* await: a call is made only by a request that is at its place and waits for
\* no earlier call
MayIssue(q, op) == AtCall(q, op) /\ q.flying = <<>>

\* env.AI.run(...) or stub.fetch(...) is called; its promise is pending
Issue(r, op) ==
  /\ MayIssue(req[r], op)
  /\ req' = [req EXCEPT ![r].flying = Append(@, op)]
  /\ UNCHANGED <<store, app>>

\* the call of request r that is pending
Pending(r, op) == req[r].flying # <<>> /\ req[r].flying[1] = op

-----------------------------------------------------------------------------
(* Specifications *)

\* the model an inference call of request q goes to
ModelOf(q) == IF q.phase = "fallback" THEN FALLBACK ELSE q.model

\* /api/recipe and /api/reset: one request, every outcome of every call
Next ==
  \E r \in {1} :
    \/ \E sid \in Sessions, ing \in IngredientLists, m \in RequestedModels :
         Receive(r, "recipe", sid, ing, "", m)
    \/ \E fails \in BOOLEAN : LoadHistory(r, fails)
    \/ \E res \in Results(ModelOf(req[r])) : Infer(r, res)
    \/ \E fails \in BOOLEAN : AppendUser(r, fails)
    \/ \E fails \in BOOLEAN : AppendAsst(r, fails)
    \/ \E sid \in Sessions, fails \in BOOLEAN : Reset(r, sid, fails)

Spec == Init /\ [][Next]_vars

\* /api/recipe/stream: one request, every outcome of every call
NextStream ==
  \E r \in {1} :
    \/ \E sid \in Sessions, ing \in IngredientLists, ex \in ExtrasTexts,
          m \in RequestedModels :
         Receive(r, "stream", sid, ing, ex, m)
    \/ \E fails \in BOOLEAN : LoadHistory(r, fails)
    \/ \E res \in StreamResults(ModelOf(req[r])) : OpenStream(r, res)
    \/ \E res \in Results(ModelOf(req[r])) : StreamFallbackInfer(r, res)
    \/ \E fails \in BOOLEAN : AppendUser(r, fails)
    \/ \E fails \in BOOLEAN : AppendAsst(r, fails)
    \/ \E c \in Chunks(ModelOf(req[r])) : Produce(r, c)
    \/ CloseStream(r)
    \/ ErrorStream(r)
    \/ ClientRead(r)
    \/ ClientCancel(r)
    \/ DrainRead(r)
    \/ \E fails \in BOOLEAN : DrainAppendUser(r, fails)
    \/ \E fails \in BOOLEAN : DrainAppendAsst(r, fails)

SpecStream == Init /\ [][NextStream]_vars

\* ctx.waitUntil keeps the drain scheduled until its promise settles: each of
\* its steps is taken once it stays possible
DrainFairness ==
  \A r \in {1} :
    /\ WF_vars(DrainRead(r))
    /\ WF_vars(\E fails \in BOOLEAN : DrainAppendUser(r, fails))
    /\ WF_vars(\E fails \in BOOLEAN : DrainAppendAsst(r, fails))

SpecStreamFair == SpecStream /\ DrainFairness

\* one request on any route
SpecAll == Init /\ [][Next \/ NextStream]_vars

\* the chunks of a stream when several requests run at once
FewChunks(m) == { <<Letter(m)>> \o END }

\* several requests at once, on any session, on every route; the caller's
\* reads of s1 touch neither the store nor the drain and are left to SpecStream
NextConc ==
  \E r \in ReqIds :
    \/ \E route \in {"recipe", "stream"}, sid \in Sessions, ing \in IngredientLists,
          m \in {NoModel, FALLBACK} :
         Receive(r, route, sid, ing, "", m)
    \/ \E fails \in BOOLEAN : LoadHistory(r, fails)
    \/ \E res \in FewResults(ModelOf(req[r])) : Infer(r, res)
    \/ \E fails \in BOOLEAN : AppendUser(r, fails)
    \/ \E fails \in BOOLEAN : AppendAsst(r, fails)
    \/ \E sid \in Sessions, fails \in BOOLEAN : Reset(r, sid, fails)
    \/ \E res \in StreamResults(ModelOf(req[r])) : OpenStream(r, res)
    \/ \E res \in FewResults(ModelOf(req[r])) : StreamFallbackInfer(r, res)
    \/ \E c \in FewChunks(ModelOf(req[r])) : Produce(r, c)
    \/ CloseStream(r)
    \/ ErrorStream(r)
    \/ DrainRead(r)
    \/ \E fails \in BOOLEAN : DrainAppendUser(r, fails)
    \/ \E fails \in BOOLEAN : DrainAppendAsst(r, fails)

SpecConc == Init /\ [][NextConc]_vars

\* requests and resets of one session at once: the requests that write to the
\* history a reset clears
NextReset ==
  \E r \in ReqIds :
    \/ \E sid \in Sessions, ing \in IngredientLists :
         Receive(r, "recipe", sid, ing, "", FALLBACK)
    \/ \E fails \in BOOLEAN : LoadHistory(r, fails)
    \/ \E res \in FewResults(ModelOf(req[r])) : Infer(r, res)
    \/ \E fails \in BOOLEAN : AppendUser(r, fails)
    \/ \E fails \in BOOLEAN : AppendAsst(r, fails)
    \/ \E sid \in Sessions, fails \in BOOLEAN : Reset(r, sid, fails)

SpecReset == Init /\ [][NextReset]_vars

\* requests sent to the session objects themselves, several at once
NextDo ==
  \E r \in ReqIds :
    \/ \E sid \in Sessions, d \in DoRequests : DoFetch(r, sid, d)
    \/ DoPut(r)

SpecDo == Init /\ [][NextDo]_vars

\* an unfinished text, a finished one and a failure
SomeResults(m) ==
  { Response(<<Letter(m)>>), Response(<<Letter(m)>> \o END), Reject(Failure(m)) }

\* appends sent to a session object itself: a role the worker never stores and
\* one it does
ForeignAppends ==
  {DoReq("POST", "/append", "tool", <<"x">>), DoReq("POST", "/append", "user", <<"x">>)}

\* one generate request on either route, after and among requests that other
\* slots send to the session objects themselves, which may store any role
NextMsgs ==
  \/ \E r \in ReqIds \ {1} :
       \/ \E sid \in Sessions, d \in ForeignAppends : DoFetch(r, sid, d)
       \/ DoPut(r)
  \/ \E r \in {1} :
       \/ \E route \in {"recipe", "stream"}, sid \in Sessions, ing \in IngredientLists :
            Receive(r, route, sid, ing, "", NoModel)
       \/ \E fails \in BOOLEAN : LoadHistory(r, fails)
       \/ \E res \in SomeResults(ModelOf(req[r])) : Infer(r, res)
       \/ \E fails \in BOOLEAN : AppendUser(r, fails)
       \/ \E fails \in BOOLEAN : AppendAsst(r, fails)
       \/ \E res \in StreamResults(ModelOf(req[r])) : OpenStream(r, res)
       \/ \E res \in SomeResults(ModelOf(req[r])) : StreamFallbackInfer(r, res)

SpecMsgs == Init /\ [][NextMsgs]_vars

\* one generate request on either route, each awaited call in two steps
NextSeq ==
  \E r \in {1} :
    \/ \E route \in {"recipe", "stream"}, sid \in Sessions, ing \in IngredientLists,
          m \in {NoModel, FALLBACK} :
         Receive(r, route, sid, ing, "", m)
    \/ \E fails \in BOOLEAN : LoadHistory(r, fails)
    \/ \E op \in HandlerCalls \cup DrainCalls : Issue(r, op)
    \/ Pending(r, "infer") /\ \E res \in SomeResults(ModelOf(req[r])) : Infer(r, res)
    \/ Pending(r, "appendUser") /\ \E fails \in BOOLEAN : AppendUser(r, fails)
    \/ Pending(r, "appendAsst") /\ \E fails \in BOOLEAN : AppendAsst(r, fails)
    \/ Pending(r, "openStream")
         /\ \E res \in StreamResults(ModelOf(req[r])) : OpenStream(r, res)
    \/ Pending(r, "sfInfer")
         /\ \E res \in SomeResults(ModelOf(req[r])) : StreamFallbackInfer(r, res)
    \/ \E c \in FewChunks(ModelOf(req[r])) : Produce(r, c)
    \/ CloseStream(r)
    \/ DrainRead(r)
    \/ Pending(r, "drainUser") /\ \E fails \in BOOLEAN : DrainAppendUser(r, fails)
    \/ Pending(r, "drainAsst") /\ \E fails \in BOOLEAN : DrainAppendAsst(r, fails)

SpecSeq == Init /\ [][NextSeq]_vars

\* the Cookie headers of the requests: none, a sid cookie alone or after another
\* cookie, and a cookie whose name only ends with sid
Cookies ==
  { <<>>,
    SidKey \o <<"s1">>,
    SidKey \o <<"s2">>,
    <<"t", "=", "x", ";", " ">> \o SidKey \o <<"s2">>,
    <<"x">> \o SidKey \o <<"s2">>,
    <<"x">> \o SidKey \o <<"s2">> \o <<";", " ">> \o SidKey \o <<"s1">> }

\* a request with its Cookie header reaches the worker
Arrive(r, cookie) ==
  /\ req[r].pc = "idle" /\ ~req[r].arrived
  /\ req' = [req EXCEPT ![r].arrived = TRUE, ![r].cookie = cookie]
  /\ UNCHANGED <<store, app>>

\* the identifiers crypto.randomUUID() may give: those of no session in use
FreshIds ==
  {s \in Sessions : store[s] = <<>> /\ \A r \in ReqIds : req[r].sid # s}

\* the session of an arrived request: getOrCreateSessionId(request)
SessionOf(r) ==
  {getOrCreateSessionId(req[r].cookie, fresh) : fresh \in FreshIds}

\* requests and resets that come with a Cookie header, several at once
NextCookie ==
  \E r \in ReqIds :
    \/ \E cookie \in Cookies : Arrive(r, cookie)
    \/ /\ req[r].arrived
       /\ \E sid \in SessionOf(r), ing \in IngredientLists :
            Receive(r, "recipe", sid, ing, "", FALLBACK)
    \/ \E fails \in BOOLEAN : LoadHistory(r, fails)
    \/ \E res \in FewResults(ModelOf(req[r])) : Infer(r, res)
    \/ \E fails \in BOOLEAN : AppendUser(r, fails)
    \/ \E fails \in BOOLEAN : AppendAsst(r, fails)
    \/ /\ req[r].arrived
       /\ \E sid \in SessionOf(r), fails \in BOOLEAN : Reset(r, sid, fails)

SpecCookie == Init /\ [][NextCookie]_vars

\* the models the page offers by their own identifier
SupportedModels == {DEFAULT, FALLBACK}

\* the identifiers resolveModel is given when the call is taken alone
AskedModels ==
  {NoModel, "", "gpt-5", "GPT-5", "gpt5", "gpt-4.1", "GPT-4.1", DEFAULT, FALLBACK,
   CUSTOM, "unknown-model"}

InitResolve ==
  /\ store = InitStore
  /\ app = InitApp
  /\ req \in [ReqIds -> {[IdleReq EXCEPT !.asked = m] : m \in AskedModels}]

\* const model = resolveModel(body.model), nothing else of the handler
ApplyResolve(r) ==
  /\ req[r].pc = "idle"
  /\ req[r].asked # "none"
  /\ req' = [req EXCEPT ![r].model = resolveModel(req[r].asked),
                        ![r].pc = "resolved"]
  /\ UNCHANGED <<store, app>>

NextResolve == \E r \in ReqIds : ApplyResolve(r)

SpecResolve == InitResolve /\ [][NextResolve]_vars

\* the frontend alone: generate, the arrows, the typing timer, and every
\* outcome of every fetch
NextApp ==
  \/ \E in \in FormInputs : Generate(in[1], in[2])
  \/ \E k \in 1..MaxGen, i \in 1..3, out \in Outcomes : Settle(k, i, out)
  \/ \E k \in 1..MaxGen : Finish(k)
  \/ NavigateLeft
  \/ NavigateRight
  \/ TypeStep

SpecApp == Init /\ [][NextApp]_vars

\* the outcomes that tell a recipe from an error text
NavOutcomes == { Resolved200("a recipe"), Rejected("Failed to fetch") }

\* the frontend with the two outcomes that matter to the arrows
NextAppNav ==
  \/ \E in \in FormInputs : Generate(in[1], in[2])
  \/ \E k \in 1..MaxGen, i \in 1..3, out \in NavOutcomes : Settle(k, i, out)
  \/ \E k \in 1..MaxGen : Finish(k)
  \/ NavigateLeft
  \/ NavigateRight
  \/ TypeStep

SpecAppNav == Init /\ [][NextAppNav]_vars

\* every fetch settles, and the continuation of a generate call whose three
\* promises have resolved runs
AppFairness ==
  /\ WF_vars(\E k \in 1..MaxGen, i \in 1..3, out \in Outcomes : Settle(k, i, out))
  /\ WF_vars(\E k \in 1..MaxGen : Finish(k))

SpecAppFair == SpecApp /\ AppFairness

-----------------------------------------------------------------------------
(* Claims *)

Done(r) == req[r].pc = "done"

Recipe(r) == req[r].route = "recipe"

\* the characters only the primary model's output holds
PrimaryMarks == {"p", "{"}

NoPrimaryText(t) == \A i \in 1..Len(t) : t[i] \notin PrimaryMarks

C2_ReturnedTextHasNoSentinel ==
  \A r \in ReqIds :
    Recipe(r) /\ req[r].resp.status = 200 => ~Includes(req[r].resp.recipe, END)

\* C3: no body delivered to the caller, JSON recipe text or streamed bytes,
\* contains the sentinel.
C3_SentinelNeverShown ==
  \A r \in ReqIds :
    /\ ~Includes(req[r].resp.recipe, END)
    /\ ~Includes(req[r].delivered, END)

\* the primary attempt of r threw, or every call of it resolved to an empty
\* response
PrimaryFailed(r) ==
  \/ req[r].causes # <<>>
  \/ req[r].phase = "primary" /\ ~req[r].first /\ Trim(req[r].full) = <<>>

\* C4: a primary attempt that fails for any reason (a call rejects, or resolves
\* to a malformed or empty response) is followed by exactly one fallback attempt
\* when the model is not the fallback model, by none when it is, and no request
\* makes more than one fallback attempt.
C4_FallbackOnAnyPrimaryFailure ==
  \A r \in ReqIds :
    Recipe(r) /\ Done(r) =>
      /\ req[r].fbAttempts <= 1
      /\ req[r].model = FALLBACK => req[r].fbAttempts = 0
      /\ req[r].model # FALLBACK /\ PrimaryFailed(r) => req[r].fbAttempts = 1

\* C5: when the primary and the fallback attempt both fail, the response is one
\* error of status 500 whose detail is the cause of the primary failure.
C5_BothFailCarriesPrimaryCause ==
  \A r \in ReqIds :
    Recipe(r) /\ Done(r) /\ Len(req[r].causes) = 2 =>
      /\ req[r].resp.status = 500
      /\ req[r].resp.error = "AI request failed"
      /\ req[r].resp.detail = req[r].causes[1]
      /\ req[r].resp.recipe = <<>>

\* both attempts failed, for different causes
C5_BothFailed ==
  \E r \in ReqIds :
    /\ Recipe(r) /\ Done(r) /\ Len(req[r].causes) = 2
    /\ req[r].causes[1] # req[r].causes[2]
    /\ req[r].resp.status = 500

\* C6: a primary attempt that succeeds answers 200 with the resolved model and
\* no note; a failed primary attempt followed by a fallback attempt that succeeds
\* answers 200 with the fallback model, the note "Auto-fallback used." and the
\* text of the fallback model.
C6_FallbackResult ==
  \A r \in ReqIds :
    Recipe(r) /\ Done(r) /\ req[r].ingredients # <<>> =>
      /\ req[r].causes = <<>> =>
           /\ req[r].resp.status = 200
           /\ req[r].resp.model = req[r].model
           /\ req[r].resp.note = "none"
      /\ Len(req[r].causes) = 1 /\ req[r].model # FALLBACK =>
           /\ req[r].resp.status = 200
           /\ req[r].resp.model = FALLBACK
           /\ req[r].resp.note = "Auto-fallback used."
           /\ req[r].resp.recipe = req[r].clean
           /\ NoPrimaryText(req[r].resp.recipe)

\* the primary model failed on its first call and the fallback model answered
C6_FallbackAnswered ==
  \E r \in ReqIds :
    /\ Recipe(r) /\ Done(r) /\ req[r].fbAttempts = 1
    /\ req[r].calls = req[r].attemptCalls + 1
    /\ req[r].resp.status = 200
    /\ Includes(req[r].resp.recipe, <<"f">>)

\* C7: a fallback attempt starts from empty text and the original messages, so
\* its calls, its accumulated text, the text it returns and the text it stores
\* hold nothing the primary model produced.
C7_FallbackRestartsFromZero ==
  \A r \in ReqIds :
    Recipe(r) /\ req[r].phase = "fallback" =>
      /\ NoPrimaryText(req[r].full)
      /\ NoPrimaryText(req[r].clean)
      /\ NoPrimaryText(req[r].resp.recipe)
      /\ req[r].first => req[r].full = <<>> /\ req[r].rounds = 0
      /\ req[r].attemptCalls = 1 =>
           req[r].msgs = BuildMessages(req[r].history, req[r].userMsg)
      /\ req[r].attemptCalls >= 1 =>
           \A i \in 1..Len(req[r].msgs) : NoPrimaryText(req[r].msgs[i].content)
      /\ \A i \in 1..Len(store[req[r].sid]) :
           NoPrimaryText(store[req[r].sid][i].content)

\* a fallback answered after the primary attempt had produced text
C7_FallbackAfterPartial ==
  \E r \in ReqIds :
    /\ Recipe(r) /\ Done(r) /\ req[r].phase = "fallback" /\ req[r].partial
    /\ req[r].resp.status = 200
    /\ Includes(req[r].resp.recipe, <<"f">>)
    /\ Len(store[req[r].sid]) > 0
    /\ store[req[r].sid][Len(store[req[r].sid])].content = req[r].resp.recipe

\* C8: the stored history of every session has at most 20 entries in every
\* reachable state.
C8_HistoryAtMostCap ==
  \A sid \in Sessions : Len(store[sid]) <= 20

\* a full history whose oldest entry was evicted, written by two requests
C8_CapReached ==
  \E sid \in Sessions :
    /\ Len(store[sid]) = 20
    /\ store[sid][1] # OldEntry(1)
    /\ \A r \in {1, 2} : req[r].sid = sid /\ req[r].writes > 0

\* C9: when a successful generate request finishes its commit, the two newest
\* entries of its session's history are its user message and then its assistant
\* message, holding the text returned.
C9_NewestTwoAfterCommit ==
  [][\A r \in ReqIds :
       (req[r].pc # "done" /\ req'[r].pc = "done" /\ req'[r].resp.status = 200
          /\ req'[r].route = "recipe") =>
         LET h == store'[req'[r].sid] IN
           /\ Len(h) >= 2
           /\ h[Len(h) - 1] = req'[r].userMsg
           /\ h[Len(h)] = Entry("assistant", req'[r].resp.recipe)]_vars

\* C10: a generate request with no ingredient ends with status 400 and has made
\* no inference call and no store write.
C10_EmptyInputRejected ==
  \A r \in ReqIds :
    req[r].route \in {"recipe", "stream"} /\ req[r].ingredients = <<>> =>
      /\ Done(r)
      /\ req[r].resp.status = 400
      /\ req[r].resp.error = "Provide at least one ingredient."
      /\ req[r].calls = 0
      /\ req[r].writes = 0
      /\ req[r].appends = <<>>
      /\ req[r].stream = "none"

\* a stream request with no ingredient was rejected, on a session with history
C10_StreamRejected ==
  \E r \in ReqIds :
    /\ req[r].route = "stream" /\ req[r].ingredients = <<>>
    /\ Done(r) /\ req[r].resp.status = 400
    /\ store[req[r].sid] # <<>>

RECURSIVE Flatten(_)
\* the concatenation of the chunks of a sequence of chunks
Flatten(cs) == IF cs = <<>> THEN <<>> ELSE Head(cs) \o Flatten(Tail(cs))

IsPrefix(s, t) == Len(s) <= Len(t) /\ SubSeq(t, 1, Len(s)) = s

Streaming(r) == req[r].route = "stream" /\ req[r].stream # "none"

\* the drain has read s2 to its end
DrainAtEnd(r) == req[r].drain \in {"appendUser", "appendAsst", "done"}

\* C11: at every moment the bytes the caller has read and the bytes the drain
\* has read are both a prefix of the bytes the stream has produced, in the same
\* order, and once both cursors have reached the end of the stream the two
\* concatenations are equal, whichever cursor ran ahead.
C11_CursorsSeeSameBytes ==
  \A r \in ReqIds :
    Streaming(r) =>
      LET all == Flatten(req[r].chunks) IN
        /\ IsPrefix(req[r].delivered, all)
        /\ IsPrefix(req[r].drained, all)
        /\ IsPrefix(req[r].delivered, req[r].drained)
             \/ IsPrefix(req[r].drained, req[r].delivered)
        /\ req[r].client = "ended" /\ DrainAtEnd(r) =>
             req[r].delivered = req[r].drained /\ req[r].drained = all

\* both cursors have read a stream of two chunks to its end
C11_BothCursorsAtEnd ==
  \E r \in ReqIds :
    /\ Streaming(r) /\ req[r].client = "ended" /\ DrainAtEnd(r)
    /\ Len(req[r].chunks) = 2
    /\ req[r].chunks[1] # req[r].chunks[2]
    /\ req[r].delivered = req[r].drained
    /\ Len(req[r].drained) > Len(req[r].chunks[1])

\* the text of the whole stream, as the drain decodes it
StreamText(r) == Decode(Flatten(req[r].chunks))

\* the caller has not read s1 to its end: it disconnected or it stopped reading
CallerGone(r) ==
  \/ req[r].client = "cancelled"
  \/ req[r].client = "reading" /\ req[r].aPos < Len(req[r].chunks)

\* the drain has saved both turns and the assistant turn is the whole text
CommittedWholeText(r) ==
  /\ req[r].drain = "done"
  /\ req[r].acc = StreamText(r)
  /\ req[r].appends = <<"user", "assistant">> /\ req[r].acc # <<>> =>
       store[req[r].sid][Len(store[req[r].sid])] = Entry("assistant", StreamText(r))

\* C12: once the stream has ended, a drain whose caller disconnected or stopped
\* reading still reads s2 to its end and finishes; the text it has accumulated
\* at the end of the stream, and the assistant turn it saves, is the text of the
\* whole stream whatever the caller has read.
C12_DrainIgnoresCaller ==
  /\ [](\A r \in ReqIds : Streaming(r) /\ DrainAtEnd(r) => req[r].acc = StreamText(r))
  /\ \A r \in {1} :
       (Streaming(r) /\ req[r].stream = "closed" /\ CallerGone(r))
          ~> CommittedWholeText(r)

\* the caller disconnected before it read anything and the drain saved the text
\* of a stream of two chunks
C12_SavedAfterDisconnect ==
  \E r \in ReqIds :
    /\ Streaming(r) /\ req[r].client = "cancelled" /\ req[r].delivered = <<>>
    /\ Len(req[r].chunks) = 2
    /\ req[r].drain = "done" /\ req[r].appends = <<"user", "assistant">>
    /\ req[r].acc = StreamText(r) /\ req[r].acc # <<>>
    /\ store[req[r].sid][Len(store[req[r].sid])] = Entry("assistant", req[r].acc)

\* C13: a stream request whose stream could not be opened, or failed before a
\* byte was produced, or ended with zero bytes, is answered with a JSON body,
\* and an unopened stream whose non-streaming call fails on a model other than
\* the secondary model is retried on the secondary model.
C13_EmptyStreamFallsBack ==
  \A r \in ReqIds :
    req[r].route = "stream" =>
      /\ req[r].stream \in {"closed", "errored"} /\ req[r].chunks = <<>> =>
           req[r].resp.shape = "json"
      /\ (req[r].phase = "streamFallback" /\ Done(r) /\ req[r].resp.status = 500
            /\ req[r].model # FALLBACK) => req[r].fbAttempts = 1

\* C14: a stream request that has answered has answered with a byte stream or
\* with a JSON body, its answer never changes afterwards, a request that
\* answered with a byte stream never enters the non-streaming fallback, and a
\* request in the fallback has opened no stream and sent no byte.
C14_OneResponseShape ==
  /\ [](\A r \in ReqIds :
         req[r].route = "stream" =>
           /\ Done(r) => req[r].resp.shape \in {"stream", "json"}
           /\ req[r].resp.shape = "stream" =>
                req[r].phase = "primary" /\ req[r].calls = 1
           /\ req[r].phase = "streamFallback" =>
                /\ req[r].stream = "none" /\ req[r].chunks = <<>>
                /\ req[r].delivered = <<>>
                /\ req[r].resp.shape # "stream")
  /\ [][\A r \in ReqIds :
         req[r].route = "stream" /\ req[r].resp # NoResp => req'[r].resp = req[r].resp]_vars

\* a stream request was answered by the fallback's JSON body
C14_FallbackAnswered ==
  \E r \in ReqIds :
    /\ req[r].route = "stream" /\ req[r].phase = "streamFallback"
    /\ Done(r) /\ req[r].resp.status = 200 /\ req[r].resp.shape = "json"
    /\ req[r].resp.recipe # <<>> /\ req[r].stream = "none"

\* the latest exception request r caught came from a store append
AppendFailed(r) ==
  req[r].causes # <<>> /\ req[r].causes[Len(req[r].causes)] = "store error"

\* C15: a failed history append is followed by no further inference call and
\* the request it belongs to ends with a success response that carries the text
\* of the attempt.
C15_AppendFailureIsolated ==
  \A r \in ReqIds :
    AppendFailed(r) =>
      /\ req[r].pc # "infer"
      /\ Done(r) => req[r].resp.status = 200 /\ req[r].resp.recipe = req[r].clean

Resolved(r) == req[r].pc = "resolved"

\* C16: resolveModel gives "@cf/meta/llama-3.3-70b-instruct-fp8-fast" for
\* "gpt-5", for an undefined and for an empty identifier, and gives
\* "@cf/meta/llama-3.1-8b-instruct-fast" for itself.
C16_ResolveKnownInputs ==
  \A r \in ReqIds :
    Resolved(r) =>
      /\ req[r].asked \in {"gpt-5", NoModel, ""} =>
           req[r].model = "@cf/meta/llama-3.3-70b-instruct-fp8-fast"
      /\ req[r].asked = "@cf/meta/llama-3.1-8b-instruct-fast" =>
           req[r].model = "@cf/meta/llama-3.1-8b-instruct-fast"

\* "gpt-5" was resolved to the default and the 8b identifier to itself
C16_AliasAndPassThrough ==
  \E r1, r2 \in ReqIds :
    /\ Resolved(r1) /\ req[r1].asked = "gpt-5"
    /\ req[r1].model = "@cf/meta/llama-3.3-70b-instruct-fp8-fast"
    /\ Resolved(r2) /\ req[r2].asked = "@cf/meta/llama-3.1-8b-instruct-fast"
    /\ req[r2].model = req[r2].asked

\* C17: resolveModel gives the default for every identifier that is not a
\* supported model, and two calls with the same identifier give the same result.
C17_UnsupportedMappedToDefault ==
  \A r \in ReqIds :
    Resolved(r) =>
      /\ req[r].asked \notin SupportedModels =>
           req[r].model = "@cf/meta/llama-3.3-70b-instruct-fp8-fast"
      /\ \A r2 \in ReqIds :
           Resolved(r2) /\ req[r2].asked = req[r].asked => req[r2].model = req[r].model

\* C18: the step that completes a POST /api/reset leaves the session's stored
\* history empty, so that a read of it returns the empty sequence, whatever it
\* held before; it answers 200 and changes no other session.
C18_ResetClearsHistory ==
  [][\A r \in ReqIds :
       (req[r].pc = "idle" /\ req'[r].pc = "done" /\ req'[r].route = "reset") =>
         /\ DoHistory(store'[req'[r].sid]) = <<>>
         /\ req'[r].resp.status = 200 /\ req'[r].resp.error = "none"
         /\ \A s \in Sessions \ {req'[r].sid} : store'[s] = store[s]]_vars

\* a reset emptied the session that began with history and that another
\* request had appended to
C18_ResetAfterWrites ==
  \E r, r2 \in ReqIds :
    /\ req[r].route = "reset" /\ Done(r) /\ req[r].sid = "s2"
    /\ req[r2].route = "recipe" /\ req[r2].sid = "s2" /\ req[r2].writes = 2
    /\ store["s2"] = <<>>

\* request r is the scenario's: /api/recipe with ingredients, the default model
\* and a session whose history was empty when it was loaded
EmptyHistoryScenario(r) ==
  /\ Recipe(r) /\ req[r].ingredients # <<>> /\ req[r].model = DEFAULT
  /\ req[r].sid = "s1" /\ req[r].pc \notin {"idle", "load", "crashed"}

\* C19: in the scenario the first inference call is given exactly two messages,
\* the system message then the user message, and once the request has answered
\* with success the session's history is exactly the user message followed by
\* the assistant message.
C19_TwoMessagesThenTwoEntries ==
  \A r \in ReqIds :
    EmptyHistoryScenario(r) =>
      /\ req[r].calls = 1 /\ req[r].phase = "primary" =>
           /\ Len(req[r].msgs) = 2
           /\ req[r].msgs[1] = Entry("system", buildSystemPrompt)
           /\ req[r].msgs[2] = req[r].userMsg /\ req[r].userMsg.role = "user"
      /\ Done(r) /\ req[r].resp.status = 200 =>
           store[req[r].sid] = <<req[r].userMsg, Entry("assistant", req[r].resp.recipe)>>

\* C20: a generate request with ingredients never ends in an exception that
\* leaves the handler; when it answers with a JSON success the recipe is not
\* empty, and when it answers with a failure the body is JSON with an error
\* message and a cause.
C20_TextOrStructuredError ==
  \A r \in ReqIds :
    req[r].route \in {"recipe", "stream"} /\ req[r].ingredients # <<>> =>
      /\ req[r].pc # "crashed"
      /\ Done(r) /\ req[r].resp.status = 200 /\ req[r].resp.shape = "json" =>
           req[r].resp.recipe # <<>>
      /\ Done(r) /\ req[r].resp.status # 200 =>
           /\ req[r].resp.shape = "json"
           /\ req[r].resp.error # "none" /\ req[r].resp.detail # "none"

\* slot r holds an /append the session object answered with ok
AckedAppend(r) ==
  /\ req[r].route = "do" /\ req[r].doReq.path = "/append"
  /\ Done(r) /\ req[r].resp.status = 200

\* C25: the write of an /append whose session nothing else wrote to since the
\* append read it stores, in that one step, the entries of the history before
\* it in their order followed by the new entry, cut from the front to the
\* newest 20; the history of a session changes in no other step than such a
\* write or a reset, and no other session changes with it.
C25_AppendStoresLastTwenty ==
  /\ [][\A r \in ReqIds :
       (req[r].pc = "doPut" /\ req'[r].pc = "done"
          /\ store[req[r].sid] = req[r].history) =>
         LET h == store[req[r].sid]
             h2 == store'[req[r].sid]
             drop == IF Len(h) + 1 > 20 THEN Len(h) + 1 - 20 ELSE 0
         IN /\ Len(h2) = Len(h) + 1 - drop
            /\ h2[Len(h2)] = Entry(req[r].doReq.role, req[r].doReq.content)
            /\ \A i \in 1..(Len(h2) - 1) : h2[i] = h[i + drop]
            /\ \A s \in Sessions \ {req[r].sid} : store'[s] = store[s]]_vars
  /\ [][\A s \in Sessions :
         store'[s] # store[s] =>
           \/ store'[s] = <<>>
           \/ \E r \in ReqIds :
                /\ req[r].pc = "doPut" /\ req'[r].pc = "done" /\ req[r].sid = s
                /\ store'[s] # <<>> /\ Len(store'[s]) <= 20
                /\ store'[s][Len(store'[s])]
                     = Entry(req[r].doReq.role, req[r].doReq.content)]_vars

\* two appends, one after the other, filled the history that held 19 entries
\* and evicted its oldest entry
C25_OldestEvicted ==
  \E r1, r2 \in ReqIds :
    /\ r1 # r2 /\ AckedAppend(r1) /\ AckedAppend(r2)
    /\ req[r1].sid = "s2" /\ req[r2].sid = "s2"
    /\ ~req[r1].raced /\ ~req[r2].raced
    /\ Len(store["s2"]) = 20
    /\ store["s2"][1] = OldEntry(2)
    /\ store["s2"][20] = Entry(req[r2].doReq.role, req[r2].doReq.content)
    /\ store["s2"][19] = Entry(req[r1].doReq.role, req[r1].doReq.content)

\* the slots whose /append on session s was answered with ok
AckedOn(s) == {r \in ReqIds : AckedAppend(r) /\ req[r].sid = s}

\* the appends of session s ran one after the other and nothing reset it
Serialized(s) ==
  /\ \A r \in ReqIds : req[r].sid = s => ~req[r].raced /\ req[r].pc # "doPut"
  /\ \A r \in ReqIds : req[r].sid = s => req[r].doReq.path # "/reset"

HasEntry(h, e) == \E i \in 1..Len(h) : h[i] = e

\* C26: while the appends of a session are serialized, every append that was
\* answered with ok is in the history unless the cap evicted it: the history
\* has grown by one entry for each of them, up to 20, and below the cap it
\* holds the entry of each.
C26_SerializedAppendsKept ==
  \A s \in Sessions :
    Serialized(s) =>
      LET n == Len(InitStore[s]) + Cardinality(AckedOn(s)) IN
        /\ Len(store[s]) = IF n > 20 THEN 20 ELSE n
        /\ n <= 20 =>
             \A r \in AckedOn(s) :
               HasEntry(store[s], Entry(req[r].doReq.role, req[r].doReq.content))

\* two appends of one session interleaved: both were answered with ok, the
\* history is far below the cap and the entry of one of them is not in it
C26_LostUpdate ==
  \E r1, r2 \in ReqIds :
    /\ r1 # r2 /\ AckedAppend(r1) /\ AckedAppend(r2)
    /\ req[r1].sid = "s1" /\ req[r2].sid = "s1"
    /\ req[r2].raced
    /\ \A r \in ReqIds : req[r].doReq.path # "/reset"
    /\ Len(store["s1"]) = 1
    /\ ~HasEntry(store["s1"], Entry(req[r1].doReq.role, req[r1].doReq.content))

\* the positions of history h that hold a user or an assistant entry
KeptAt(h) == {i \in 1..Len(h) : h[i].role \in {"user", "assistant"}}

\* C21: the messages of every inference call begin with the system message and
\* hold no other system message and no role but user and assistant after it;
\* the user and assistant entries of the history the request loaded follow the
\* system message in their stored order, entries of any other role are left
\* out, and the new user message comes right after them.
C21_MessagesWellFormed ==
  \A r \in ReqIds :
    req[r].msgs # <<>> =>
      LET m == req[r].msgs
          h == req[r].history
          k == Cardinality(KeptAt(h))
      IN /\ Len(m) >= k + 2
         /\ m[1] = Entry("system", buildSystemPrompt)
         /\ \A i \in 2..Len(m) : m[i].role \in {"user", "assistant"}
         /\ \A i \in KeptAt(h) : m[1 + Cardinality({j \in KeptAt(h) : j <= i})] = h[i]
         /\ m[k + 2] = req[r].userMsg /\ req[r].userMsg.role = "user"

\* a continuation call was sent messages built from a history of 20 entries
\* that holds an entry of another role
C21_ForeignRoleDropped ==
  \E r \in ReqIds :
    /\ req[r].msgs # <<>> /\ req[r].attemptCalls >= 2
    /\ Len(req[r].history) = 20
    /\ \E i \in 1..Len(req[r].history) : req[r].history[i].role = "tool"
    /\ Len(req[r].msgs) = 19 + 4

\* request r makes a continuation call in this step and keeps its messages
ContinuationCall(r) ==
  /\ req[r].pc = "infer" /\ Recipe(r) /\ ~req[r].first
  /\ req'[r].calls = req[r].calls + 1
  /\ req'[r].msgs # <<>>

\* C22: a continuation call is made only while the accumulated text lacks the
\* sentinel, and its messages are exactly the system message, the user and
\* assistant entries of the history loaded at the start of the request, the
\* original user turn, one assistant message holding the text accumulated before
\* the call, and one user message that asks to continue and names the sentinel;
\* the text returned is added after the accumulated text.
C22_ContinuationMessages ==
  [][\A r \in ReqIds :
       ContinuationCall(r) =>
         LET m == req'[r].msgs
             h == req[r].history
             k == Cardinality(KeptAt(h))
         IN /\ ~Includes(req[r].full, END)
            /\ req'[r].history = h /\ req'[r].userMsg = req[r].userMsg
            /\ Len(m) = k + 4
            /\ m[1] = Entry("system", buildSystemPrompt)
            /\ \A i \in KeptAt(h) : m[1 + Cardinality({j \in KeptAt(h) : j <= i})] = h[i]
            /\ m[k + 2] = req[r].userMsg
            /\ m[k + 3] = Entry("assistant", req[r].full)
            /\ m[k + 4].role = "user" /\ Includes(m[k + 4].content, END)
            /\ req'[r].phase = req[r].phase /\ req'[r].pc # "done" =>
                 IsPrefix(req[r].full, req'[r].full)]_vars

\* the fifth call of a fallback attempt was sent the text of its four earlier
\* calls, on a session with history, after the store had changed
C22_FourthContinuation ==
  \E r \in ReqIds :
    /\ Recipe(r) /\ req[r].phase = "fallback" /\ req[r].attemptCalls = 5
    /\ req[r].history # <<>> /\ store[req[r].sid] # req[r].history
    /\ Len(req[r].msgs) = Len(req[r].history) + 4
    /\ Len(req[r].msgs[Len(req[r].msgs) - 1].content) >= 4

\* how many appends of the given role request r has had answered
AppendsOf(r, role) ==
  Cardinality({i \in 1..Len(req[r].appends) : req[r].appends[i] = role})

\* C23: a request appends its user message to the history at most once and its
\* assistant message at most once, over all of its attempts.
C23_AtMostOneAppendPair ==
  \A r \in ReqIds :
    /\ AppendsOf(r, "user") <= 1
    /\ AppendsOf(r, "assistant") <= 1

\* C24: a request never has more than one awaited call unanswered, so that an
\* inference call is made only after the one before it has answered; the
\* assistant append is made only after the user append of the same attempt has
\* been answered, and in the appends answered so far every assistant append
\* comes right after a user append.
C24_CallsStrictlySequential ==
  \A r \in ReqIds :
    /\ Len(req[r].flying) <= 1
    /\ \A op \in {"appendAsst", "drainAsst"} :
         Pending(r, op) =>
           req[r].appends # <<>> /\ req[r].appends[Len(req[r].appends)] = "user"
    /\ \A i \in 1..Len(req[r].appends) :
         req[r].appends[i] = "assistant" => i > 1 /\ req[r].appends[i - 1] = "user"

\* the fifth inference call of an attempt is unanswered
C24_FifthCallPending ==
  \E r \in ReqIds :
    /\ Pending(r, "infer") /\ req[r].attemptCalls = 4 /\ req[r].rounds = 3

\* the attempt of request r has used up its rounds and holds no sentinel
Exhausted(r) ==
  Recipe(r) /\ req[r].rounds = MaxRounds /\ ~Includes(req[r].full, END)

\* C27: the call that uses up the last round without the sentinel raises
\* nothing: the attempt goes on to save the accumulated text, trimmed; and a
\* request that ended after such an attempt, with no append failure, has
\* answered 200 with that text and, when the attempt was the primary one,
\* without a fallback attempt.
C27_ExhaustionIsNotAnError ==
  /\ [](\A r \in ReqIds :
         Exhausted(r) /\ Done(r) /\ ~AppendFailed(r) =>
           /\ req[r].resp.status = 200 /\ req[r].resp.error = "none"
           /\ req[r].resp.recipe = Trim(req[r].full)
           /\ req[r].phase = "primary" =>
                req[r].fbAttempts = 0 /\ req[r].resp.note = "none")
  /\ [][\A r \in ReqIds :
         (req[r].pc = "infer" /\ req[r].rounds = MaxRounds - 1
            /\ req'[r].rounds = MaxRounds /\ ~Includes(req'[r].full, END)) =>
           /\ req'[r].pc = "appendUser"
           /\ req'[r].clean = Trim(req'[r].full)
           /\ req'[r].phase = req[r].phase /\ req'[r].causes = req[r].causes
           /\ req'[r].fbAttempts = req[r].fbAttempts]_vars

\* a primary attempt used up its rounds and the request answered 200 with text
C27_BestEffortAnswer ==
  \E r \in ReqIds :
    /\ Exhausted(r) /\ Done(r) /\ req[r].phase = "primary"
    /\ req[r].attemptCalls = 5 /\ req[r].fbAttempts = 0
    /\ req[r].resp.status = 200 /\ req[r].resp.recipe # <<>>

\* C28: the drain issues no append while it still reads, and once it has read
\* the stream to its end and both of its appends have been answered, the newest
\* two entries of the session's history are the request's user turn and an
\* assistant turn holding the text of all chunks, for every chunk sequence, the
\* empty one included.
C28_DrainCommitsBothTurns ==
  \A r \in ReqIds :
    Streaming(r) =>
      /\ req[r].drain = "reading" => req[r].appends = <<>> /\ req[r].writes = 0
      /\ req[r].drain = "done" /\ req[r].appends = <<"user", "assistant">> =>
           LET h == store[req[r].sid] IN
             /\ Len(h) >= 2
             /\ h[Len(h) - 1] = req[r].userMsg
             /\ h[Len(h)] = Entry("assistant", StreamText(r))

\* the history appends of request r that failed
FailedAppends(r) ==
  Cardinality({i \in 1..Len(req[r].causes) : req[r].causes[i] = "store error"})
    + req[r].swallowed

\* C29: every failed history append of a request has left an entry in the log,
\* and the request's answer does not show the failure: it is not an error
\* answer whose detail is the store's error.
C29_AppendFailureLogged ==
  \A r \in ReqIds :
    /\ Len(req[r].logs) >= FailedAppends(r)
    /\ req[r].resp.detail # "store error"

\* the places of a Cookie header where a cookie named sid, with a value, begins
SidCookieAt(cookie) ==
  {i \in 1..Len(cookie) :
     /\ MatchAt(cookie, SidKey, i)
     /\ i = 1 \/ cookie[i - 1] \in {" ", ";"}
     /\ i + Len(SidKey) <= Len(cookie) /\ cookie[i + Len(SidKey)] # ";"}

\* C30: the session a request is given is the value of its cookie named sid or,
\* when it carries no such cookie, a session that held no history and that no
\* other request is using; and a step of a request changes the history of no
\* session but that one, and loads no history but that one's.
C30_SessionFromSidCookie ==
  [][\A r \in ReqIds :
       /\ (req[r].arrived /\ req[r].sid = "none" /\ req'[r].sid # "none") =>
            IF SidCookieAt(req[r].cookie) # {}
            THEN req'[r].sid
                   = req[r].cookie[Least(SidCookieAt(req[r].cookie)) + Len(SidKey)]
            ELSE /\ store[req'[r].sid] = <<>>
                 /\ \A r2 \in ReqIds : req[r2].sid # req'[r].sid
       /\ req'[r] # req[r] =>
            /\ \A s \in Sessions \ {req'[r].sid} : store'[s] = store[s]
            /\ req'[r].history # req[r].history =>
                 req'[r].history = store[req'[r].sid]]_vars

\* the inference calls of request r that failed
FailedCalls(r) ==
  Cardinality({i \in 1..Len(req[r].causes) : req[r].causes[i] # "store error"})

\* request r made inference calls and every one of them failed
AllCallsFailed(r) == req[r].calls >= 1 /\ FailedCalls(r) = req[r].calls

\* every inference call of the attempt request r is in has returned a value and
\* the loop of the attempt has ended
AttemptInferred(r) ==
  /\ req[r].attemptCalls = req[r].rounds + 1
  /\ ~LoopContinues(req[r].full, req[r].rounds)
  /\ Len(req[r].causes) = req[r].fbAttempts

\* C31: a /api/recipe request appends to, or writes, the history only from the
\* two appends of an attempt whose inference calls have all returned a value
\* and whose loop has ended, and it makes no inference call in a step that
\* appends; and a request that ended with every one of its inference calls
\* failed has issued no append and no store write, and the history of its
\* session is the one it loaded.
C31_AppendsOnlyAfterInference ==
  /\ [](\A r \in ReqIds :
         Recipe(r) /\ Done(r) /\ AllCallsFailed(r) =>
           /\ req[r].appends = <<>> /\ req[r].writes = 0
           /\ store[req[r].sid] = req[r].history)
  /\ [][\A r \in ReqIds :
         (Recipe(r) /\ (req'[r].appends # req[r].appends
                          \/ req'[r].writes # req[r].writes
                          \/ store' # store)) =>
           /\ req[r].pc \in {"appendUser", "appendAsst"}
           /\ AttemptInferred(r)
           /\ req'[r].calls = req[r].calls]_vars

\* both attempts of a request on a session with history failed at their first
\* call and the request answered 500 having appended nothing
C31_NothingWrittenWhenAllFail ==
  \E r \in ReqIds :
    /\ Recipe(r) /\ Done(r) /\ AllCallsFailed(r) /\ req[r].calls = 2
    /\ req[r].phase = "fallback" /\ req[r].resp.status = 500
    /\ req[r].history # <<>> /\ store[req[r].sid] = req[r].history
    /\ req[r].appends = <<>>

\* the stream of request r failed after the handler had obtained it
StreamBroke(r) == req[r].route = "stream" /\ req[r].stream = "errored"

\* C32: once the stream of a /api/recipe/stream request has errored after it
\* was obtained, a drain that has not yet seen its end issues no append: a
\* rejected read ends the drain for good, the request has appended neither
\* turn and written nothing, and the history of its session is the one it
\* loaded, whatever part of the stream the caller has received.
C32_BrokenStreamSavesNothing ==
  /\ [](\A r \in ReqIds :
         StreamBroke(r) =>
           /\ req[r].drain \in {"reading", "failed"}
           /\ req[r].appends = <<>> /\ req[r].writes = 0
           /\ store[req[r].sid] = req[r].history)
  /\ [][\A r \in ReqIds :
         req[r].drain = "failed" => req'[r].drain = "failed" /\ store' = store]_vars

\* a read of the drain was rejected after the caller had received a chunk, and
\* the session's history, which was not empty, is as it was loaded
C32_PartDeliveredNothingSaved ==
  \E r \in ReqIds :
    /\ StreamBroke(r) /\ req[r].drain = "failed"
    /\ req[r].delivered # <<>> /\ req[r].acc # <<>>
    /\ req[r].history # <<>> /\ store[req[r].sid] = req[r].history

\* d is a request the session object answers without a storage write: it asks
\* for the history, or is an /append without a role or a content, or names no
\* route of the object
ReadOnlyDoReq(d) ==
  \/ d.method = "GET" /\ d.path = "/history"
  \/ d.method = "POST" /\ d.path = "/append" /\ (d.role = "" \/ d.content = <<>>)
  \/ ~(d.method = "POST" /\ d.path \in {"/append", "/reset"})

\* C33: the step in which the session object takes a GET /history, an /append
\* whose role or content is missing or empty, or a request to an unknown route
\* answers it at once, with 200 and the stored history, 400 and 404 in turn,
\* and leaves the stored history of every session as it was; such a request
\* has made no storage write when it is done.
C33_NoWriteOutsideAppendAndReset ==
  /\ [][\A r \in ReqIds :
         (req[r].pc = "idle" /\ req'[r].route = "do"
            /\ ReadOnlyDoReq(req'[r].doReq)) =>
           LET d == req'[r].doReq IN
           /\ store' = store
           /\ req'[r].pc = "done" /\ req'[r].writes = 0
           /\ req'[r].resp.status =
                IF d.method = "GET" /\ d.path = "/history" THEN 200
                ELSE IF d.method = "POST" /\ d.path = "/append" THEN 400
                ELSE 404
           /\ (d.method = "GET" /\ d.path = "/history") =>
                req'[r].history = store[req'[r].sid]]_vars
  /\ [](\A r \in ReqIds :
         (req[r].route = "do" /\ Done(r) /\ ReadOnlyDoReq(req[r].doReq)) =>
           req[r].writes = 0)

\* an /append without content was answered 400 and a GET of /append 404, both
\* on the session that holds 19 entries, and its history is as at the start
C33_RefusedRequestsLeftHistory ==
  \E r1, r2 \in ReqIds :
    /\ req[r1].route = "do" /\ Done(r1) /\ req[r1].sid = "s2"
    /\ req[r1].doReq = DoReq("POST", "/append", "user", <<>>)
    /\ req[r1].resp.status = 400
    /\ req[r2].route = "do" /\ Done(r2) /\ req[r2].sid = "s2"
    /\ req[r2].doReq = DoReq("GET", "/append", "user", <<"x">>)
    /\ req[r2].resp.status = 404
    /\ store["s2"] = InitStore["s2"]

\* C34: in every state the frontend reaches by generate calls, their fetches
\* and the two arrows, currentRecipeIndex is at least 0 and, when there are
\* recipes, below their number; navigateLeft at index 0 and navigateRight at
\* the last index leave the component as it is; and the index changes only by
\* a step of one within the recipes, which stay as they are, or to 0 with the
\* recipes cleared.
C34_IndexWithinRecipes ==
  /\ [](/\ app.currentRecipeIndex >= 0
        /\ app.recipes # <<>> => app.currentRecipeIndex < Len(app.recipes)
        /\ app.currentRecipeIndex = 0 => navigateLeft(app) = app
        /\ app.currentRecipeIndex = Len(app.recipes) - 1 => navigateRight(app) = app)
  /\ [][app'.currentRecipeIndex # app.currentRecipeIndex =>
          \/ app'.currentRecipeIndex = 0 /\ app'.recipes = <<>>
          \/ /\ app'.recipes = app.recipes
             /\ app'.currentRecipeIndex \in 0..(Len(app.recipes) - 1)
             /\ app'.currentRecipeIndex - app.currentRecipeIndex \in {-1, 1}]_vars

\* the last of three recipes is shown, reached with the right arrow while a
\* second generate is still in flight, and the right arrow does nothing more
C34_AtLastRecipe ==
  /\ Len(app.recipes) = 3 /\ app.currentRecipeIndex = 2
  /\ app.shown = app.recipes[3].content
  /\ app.gens = 2 /\ app.runs # <<>>
  /\ navigateRight(app) = app

\* C35: the frontend has issued three requests for each generate call that had
\* an ingredient, to /api/recipe, one per effort in the order quick, medium,
\* gourmet and each with the ingredients, and a
\* generate call without an ingredient issues none and starts nothing; the
\* step that ends a generate call leaves loading false and three recipes, the
\* quick, the medium and the gourmet one in that order, each what its request's
\* outcome made it; and while a generate call is in flight, eventually none is,
\* loading is false and there are three recipes.
C35_ThreeRequestsThreeRecipes ==
  /\ [](/\ app.fetches = 3 * app.gens
        /\ \A k \in 1..Len(app.runs) :
             /\ Len(app.runs[k].requests) = 3
             /\ \A i \in 1..3 :
                  /\ app.runs[k].requests[i].effort = Efforts[i]
                  /\ app.runs[k].requests[i].path = "/api/recipe"
                  /\ app.runs[k].requests[i].ingredients # <<>>
        /\ \A in \in FormInputs :
             ParseIngredients(in[1]) = <<>> =>
               /\ generate(app, in[1], in[2]).fetches = app.fetches
               /\ generate(app, in[1], in[2]).runs = app.runs
               /\ generate(app, in[1], in[2]).loading = app.loading
               /\ generate(app, in[1], in[2]).recipes = app.recipes)
  /\ [][Len(app'.runs) > Len(app.runs) =>
          app'.fetches = app.fetches + 3 /\ app'.loading]_vars
  /\ [][Len(app'.runs) < Len(app.runs) =>
          /\ ~app'.loading
          /\ Len(app'.recipes) = 3
          /\ \A i \in 1..3 :
               /\ app'.recipes[i].effort = Efforts[i]
               /\ \E out \in Outcomes : app'.recipes[i] = SingleRecipe(Efforts[i], out)
          /\ \E k \in 1..Len(app.runs) : app'.recipes = app.runs[k].results]_vars
  /\ (app.runs # <<>>)
       ~> (app.runs = <<>> /\ ~app.loading /\ Len(app.recipes) = 3)

\* one generate call has ended after a recipe, an error page that is not JSON
\* and a network error: three requests were issued and the three recipes are
\* there in order, loading is false
C35_MixedOutcomesThreeRecipes ==
  /\ app.runs = <<>> /\ ~app.loading /\ app.gens = 1 /\ app.fetches = 3
  /\ app.recipes
       = << SingleRecipe("quick", Resolved200("a recipe")),
            SingleRecipe("medium", ResolvedError(502, "Bad Gateway", FALSE, "", "")),
            SingleRecipe("gourmet", Rejected("Failed to fetch")) >>
  /\ app.recipes[2].content
       = <<"Error generating ", "balanced effort", " recipe: ", "Invalid JSON response">>

====
